---- MODULE Spec2Model ----
(***************************************************************************)
(* Safety and coaching triage pipeline of the Jordan small-talk practice   *)
(* app: trigger detection and prioritisation (guardrails.ts), the two-tier *)
(* distress model, the two delegated classifier functions (edge functions  *)
(* analyze-crisis-context and moderate-response), the coaching tip         *)
(* generator (coachingEngine.ts) and the turn orchestrator (Index.tsx).    *)
(*                                                                         *)
(* Text is modelled by TLA+ strings.  JavaScript's String.includes,        *)
(* toLowerCase and the regular expressions of the source are computed on   *)
(* the characters of the string, never assumed.  Characters outside ASCII  *)
(* in the source's fixed lines (the em dash) are written "-".              *)
(***************************************************************************)
EXTENDS Integers, Sequences, FiniteSets, TLC

VARIABLES
    history,        \* Index.tsx: useState<Turn[]>, the turn sequence
    cooldown,       \* Index.tsx: coach tip cooldown flag
    ended,          \* Index.tsx: session ended flag
    busy,           \* Index.tsx: a send is in flight
    showSetup,      \* Index.tsx: the setup dialog is open
    setup,          \* Index.tsx: scene and zip chosen in the setup dialog
    sessionId,      \* Index.tsx: public session id (0 models "", the n-th generated id is n)
    sessionDbId,    \* Index.tsx: database id of the session row (0 models null)
    sessionToken,   \* Index.tsx: per-session secret token (0 models "", the n-th token is n)
    sendPc,         \* position of the in-flight send()
    sendCtx,        \* locals and closure of the in-flight send()
    starts,         \* the in-flight calls of handleStartConversation(), with their locals
    nextSession,    \* number of sessions created so far (fresh ids and tokens)
    sessionsTable,  \* store: rows of table sessions
    moderationLogs, \* store: rows of table moderation_logs
    fnPc,           \* position of the function under study (pure-function and edge-function runs)
    fnArg,          \* its input
    fnRes           \* its result

vars == << history, cooldown, ended, busy, showSetup, setup, sessionId, sessionDbId,
           sessionToken, sendPc, sendCtx, starts, nextSession,
           sessionsTable, moderationLogs, fnPc, fnArg, fnRes >>

appVars == << history, cooldown, ended, busy, showSetup, setup, sessionId, sessionDbId,
              sessionToken, sendPc, sendCtx, starts, nextSession,
              sessionsTable, moderationLogs >>

fnVars == << fnPc, fnArg, fnRes >>

-----------------------------------------------------------------------------
(* Bounds of the model *)

\* user messages sent per session before the model stops sending
MaxExchanges == 2
\* sessions started before the model stops starting new ones
MaxSessions == 1
\* phrases concatenated into one text when texts are enumerated
MaxPhrases == 2
\* triggers in a list handed to prioritize
MaxTriggers == 3
\* prior accumulated tier-2 count handed to analyzeDistress
MaxTier2Count == 3

-----------------------------------------------------------------------------
(* Strings: the JavaScript string primitives the source uses *)

UpperChars == {"A","B","C","D","E","F","G","H","I","J","K","L","M",
               "N","O","P","Q","R","S","T","U","V","W","X","Y","Z"}
LowerChars == {"a","b","c","d","e","f","g","h","i","j","k","l","m",
               "n","o","p","q","r","s","t","u","v","w","x","y","z"}
DigitChars == {"0","1","2","3","4","5","6","7","8","9"}
SpaceChars == {" ", "\n", "\t", "\r"}
WordChars  == UpperChars \cup LowerChars \cup DigitChars \cup {"_"}

CharAt(s, i) == IF i >= 1 /\ i <= Len(s) THEN SubSeq(s, i, i) ELSE ""

LowerOf(c) ==
    CASE c = "A" -> "a" [] c = "B" -> "b" [] c = "C" -> "c" [] c = "D" -> "d"
      [] c = "E" -> "e" [] c = "F" -> "f" [] c = "G" -> "g" [] c = "H" -> "h"
      [] c = "I" -> "i" [] c = "J" -> "j" [] c = "K" -> "k" [] c = "L" -> "l"
      [] c = "M" -> "m" [] c = "N" -> "n" [] c = "O" -> "o" [] c = "P" -> "p"
      [] c = "Q" -> "q" [] c = "R" -> "r" [] c = "S" -> "s" [] c = "T" -> "t"
      [] c = "U" -> "u" [] c = "V" -> "v" [] c = "W" -> "w" [] c = "X" -> "x"
      [] c = "Y" -> "y" [] c = "Z" -> "z" [] OTHER -> c

RECURSIVE toLowerCase(_)
toLowerCase(s) ==
    IF Len(s) = 0 THEN ""
    ELSE LowerOf(SubSeq(s, 1, 1)) \o toLowerCase(SubSeq(s, 2, Len(s)))

\* k occurs in s at position i
StartsAt(s, i, k) == i >= 1 /\ i + Len(k) - 1 <= Len(s) /\ SubSeq(s, i, i + Len(k) - 1) = k

\* String.prototype.includes
Includes(s, k) == \E i \in 1..(Len(s) + 1) : StartsAt(s, i, k)

\* Array.prototype.some(k => s.includes(k)) over a list of keywords
IncludesAny(s, keywords) == \E n \in 1..Len(keywords) : Includes(s, keywords[n])

\* the regular expression assertion \b between positions i-1 and i of s
IsWordAt(s, i) == CharAt(s, i) \in WordChars
WordBoundary(s, i) == IsWordAt(s, i - 1) # IsWordAt(s, i)

\* every character of s from position i to j is in the class cls
AllIn(s, i, j, cls) == \A n \in i..j : CharAt(s, n) \in cls

\* String.prototype.trim
RECURSIVE trimStart(_)
trimStart(s) == IF Len(s) > 0 /\ SubSeq(s, 1, 1) \in SpaceChars
                THEN trimStart(SubSeq(s, 2, Len(s))) ELSE s
RECURSIVE trimEnd(_)
trimEnd(s) == IF Len(s) > 0 /\ SubSeq(s, Len(s), Len(s)) \in SpaceChars
              THEN trimEnd(SubSeq(s, 1, Len(s) - 1)) ELSE s
trim(s) == trimEnd(trimStart(s))

\* s.split(/\s+/).length: the pieces between maximal runs of white space
\* (a leading or trailing run yields an empty piece, as in JavaScript)
WhitespaceRuns(s) ==
    Cardinality({i \in 1..Len(s) : CharAt(s, i) \in SpaceChars /\ CharAt(s, i - 1) \notin SpaceChars})
splitWsLength(s) == WhitespaceRuns(s) + 1

-----------------------------------------------------------------------------
(* Regular expressions: the pieces the source's patterns are made of.       *)
(* Patterns with the i flag are applied to the lower-cased text.             *)

\* \s* from position i: the first position that holds no white space
RECURSIVE skipSpace(_, _)
skipSpace(str, i) == IF i <= Len(str) /\ CharAt(str, i) \in SpaceChars THEN skipSpace(str, i + 1) ELSE i

\* \w+ from position i: the last position of the run of word characters (i - 1 if none)
RECURSIVE wordRunEnd(_, _)
wordRunEnd(str, i) == IF IsWordAt(str, i) THEN wordRunEnd(str, i + 1) ELSE i - 1

\* /\?/.test(str)
hasQuestionMark(str) == Includes(str, "?")

\* /\b(a|b|...)\b/.test(str)
BoundedAny(str, alts) ==
    \E i \in 1..Len(str), n \in 1..Len(alts) :
        WordBoundary(str, i) /\ StartsAt(str, i, alts[n]) /\ WordBoundary(str, i + Len(alts[n]))

\* /\b(a|b|...)/.test(str)
LeadingAny(str, alts) ==
    \E i \in 1..Len(str), n \in 1..Len(alts) : WordBoundary(str, i) /\ StartsAt(str, i, alts[n])

\* /\b(a|b|...)\s+\w+/.test(str)
AnyThenWord(str, alts) ==
    \E i \in 1..Len(str), n \in 1..Len(alts) :
        /\ WordBoundary(str, i) /\ StartsAt(str, i, alts[n])
        /\ CharAt(str, i + Len(alts[n])) \in SpaceChars
        /\ IsWordAt(str, skipSpace(str, i + Len(alts[n])))

\* /^(a|b|...)[tail]*$/.test(str)
AnyThenTail(str, alts, tail) ==
    \E n \in 1..Len(alts) : StartsAt(str, 1, alts[n]) /\ AllIn(str, Len(alts[n]) + 1, Len(str), tail)

\* /^(a|b|...)\s*(c|d|...)[tail]*$/.test(str)
PairThenTail(str, firsts, seconds, tail) ==
    \E n \in 1..Len(firsts), m \in 1..Len(seconds) :
        /\ StartsAt(str, 1, firsts[n])
        /\ LET q == skipSpace(str, Len(firsts[n]) + 1)
           IN  StartsAt(str, q, seconds[m]) /\ AllIn(str, q + Len(seconds[m]), Len(str), tail)

\* the places of the character ch in str, from position from on
IndexesOf(str, ch, from) == {i \in from..Len(str) : CharAt(str, i) = ch}
Min(S) == CHOOSE x \in S : \A y \in S : x <= y

\* the rest of str from position i
From(str, i) == IF i > Len(str) THEN "" ELSE SubSeq(str, i, Len(str))

-----------------------------------------------------------------------------
(* constants.ts: pattern tables *)

TIER_1_CRISIS_KEYWORDS == <<
    "suicide", "suicidal", "suicid", "kill myself", "end it all", "end my life",
    "off myself", "want to die", "wanna die", "ending my life",
    "self-harm", "self harm", "hurt myself", "cutting myself",
    "kms", "kys", "unalive", "unaliving",
    "better off dead", "should be dead", "deserve to die" >>

TIER_2_DISTRESS_KEYWORDS == <<
    "hopeless", "no hope", "lost hope", "no point", "no reason to",
    "can't keep going", "can't go on", "give up", "giving up",
    "bye forever", "goodbye forever", "final goodbye", "last time",
    "won't see me again", "this is it",
    "reason to stay", "inspiration to stay", "why I stay", "keep going",
    "reasons to live", "worth living",
    "no one will miss", "better without me", "won't matter",
    "no one cares", "alone in this",
    "tired of living", "tired of trying", "don't want to be here",
    "can't handle this", "can't take it", "done with everything",
    "falling apart", "breaking down", "escape this pain",
    "stories of hope", "stories of survival", "need help" >>

CRISIS_KEYWORDS == TIER_1_CRISIS_KEYWORDS \o TIER_2_DISTRESS_KEYWORDS

CONTROVERSIAL_KEYWORDS == <<
    "politics", "religion", "trump", "biden", "abortion", "gun control",
    "immigration", "sex", "sexual" >>

INSULT_KEYWORDS == <<
    "weird", "stupid", "dumb", "idiotic", "lame", "loser", "pathetic", "ridiculous",
    "absurd", "crazy for liking", "insane for liking", "nerdy", "geeky", "uncool" >>

SEVERITY_ORDER == << "CRISIS", "PII", "CONTROVERSIAL", "INSULT", "COACHING", "NONE" >>

Severity == {"CRISIS", "PII", "CONTROVERSIAL", "INSULT", "COACHING", "NONE"}

\* EMAIL_RE = /\b[a-z0-9._%+-]+@[a-z0-9.-]+\.[a-z]{2,}\b/i
EmailLocalChars  == LowerChars \cup DigitChars \cup {".", "_", "%", "+", "-"}
EmailDomainChars == LowerChars \cup DigitChars \cup {".", "-"}
EMAIL_RE_test(text) ==
    LET t == toLowerCase(text) IN
    \E a \in 1..Len(t) :
        /\ CharAt(t, a) = "@"
        /\ \E p \in 1..(a - 1) : WordBoundary(t, p) /\ AllIn(t, p, a - 1, EmailLocalChars)
        /\ \E d \in (a + 2)..Len(t) : \E e \in (d + 2)..Len(t) :
               /\ CharAt(t, d) = "."
               /\ AllIn(t, a + 1, d - 1, EmailDomainChars)
               /\ AllIn(t, d + 1, e, LowerChars)
               /\ WordBoundary(t, e + 1)

\* an optional separator [-.]? at position i: the position after it
AfterSep(s, i) == IF CharAt(s, i) \in {"-", "."} THEN {i, i + 1} ELSE {i}

\* PHONE_RE = /\b\d{3}[-.]?\d{3}[-.]?\d{4}\b/
PHONE_RE_test(text) ==
    \E p \in 1..Len(text) :
        /\ WordBoundary(text, p)
        /\ AllIn(text, p, p + 2, DigitChars)
        /\ \E q \in AfterSep(text, p + 3) :
               /\ AllIn(text, q, q + 2, DigitChars)
               /\ \E r \in AfterSep(text, q + 3) :
                      /\ AllIn(text, r, r + 3, DigitChars)
                      /\ WordBoundary(text, r + 4)

\* SSN_RE = /\b\d{3}[-.]?\d{2}[-.]?\d{4}\b/
SSN_RE_test(text) ==
    \E p \in 1..Len(text) :
        /\ WordBoundary(text, p)
        /\ AllIn(text, p, p + 2, DigitChars)
        /\ \E q \in AfterSep(text, p + 3) :
               /\ AllIn(text, q, q + 1, DigitChars)
               /\ \E r \in AfterSep(text, q + 2) :
                      /\ AllIn(text, r, r + 3, DigitChars)
                      /\ WordBoundary(text, r + 4)

StreetSuffixes == << "street", "st", "avenue", "ave", "road", "rd", "boulevard", "blvd",
                     "drive", "dr", "lane", "ln", "way", "court", "ct" >>

\* ADDRESS_RE = /\b\d+\s+[A-Za-z\s]+(?:street|st|...|ct)\b/i
ADDRESS_RE_test(text) ==
    LET t == toLowerCase(text) IN
    \E p \in 1..Len(t) : \E d \in p..Len(t) : \E w \in (d + 1)..Len(t) :
        /\ WordBoundary(t, p)
        /\ AllIn(t, p, d, DigitChars)
        /\ AllIn(t, d + 1, w, SpaceChars)
        /\ \E x \in (w + 2)..Len(t) : \E n \in 1..Len(StreetSuffixes) :
               /\ AllIn(t, w + 1, x - 1, LowerChars \cup SpaceChars)
               /\ StartsAt(t, x, StreetSuffixes[n])
               /\ WordBoundary(t, x + Len(StreetSuffixes[n]))

\* STREET_SHARE_RE is imported by guardrails.ts but defined in no file of the
\* sources; the texts of this model are decided by the four patterns above.
STREET_SHARE_RE_test(text) == FALSE

-----------------------------------------------------------------------------
(* guardrails.ts *)

NoTier2 == [severity |-> "none", foundTier2 |-> FALSE, matchedKeywords |-> << >>]

\* the first tier-1 keyword, in list order, that the lower-cased text includes (0 = none)
FirstTier1(lowerText) ==
    LET hits == {n \in 1..Len(TIER_1_CRISIS_KEYWORDS) : Includes(lowerText, TIER_1_CRISIS_KEYWORDS[n])}
    IN IF hits = {} THEN 0 ELSE CHOOSE n \in hits : \A m \in hits : n <= m

\* analyzeDistress with the tier-2 accumulation check ahead of the tier-1 check
analyzeDistress_tier2First(text, tier2Count) ==
    LET lowerText == toLowerCase(text)
        t1 == FirstTier1(lowerText)
        matched2 == SelectSeq(TIER_2_DISTRESS_KEYWORDS, LAMBDA k : Includes(lowerText, k))
    IN  IF Len(matched2) > 0
        THEN [severity |-> IF tier2Count + 1 >= 2 THEN "low" ELSE "none",
              foundTier2 |-> TRUE, matchedKeywords |-> matched2]
        ELSE IF t1 # 0
        THEN [severity |-> "high", foundTier2 |-> FALSE,
              matchedKeywords |-> << TIER_1_CRISIS_KEYWORDS[t1] >>]
        ELSE NoTier2

\* analyzeDistress(text, tier2Count)
analyzeDistress(text, tier2Count) ==
    LET lowerText == toLowerCase(text)
        t1 == FirstTier1(lowerText)
        matched2 == SelectSeq(TIER_2_DISTRESS_KEYWORDS, LAMBDA k : Includes(lowerText, k))
        foundTier2 == Len(matched2) > 0
        newCount == tier2Count + 1
    IN  IF t1 # 0
        THEN [severity |-> "high", foundTier2 |-> FALSE,
              matchedKeywords |-> << TIER_1_CRISIS_KEYWORDS[t1] >>]
        ELSE IF foundTier2
        THEN IF newCount >= 2
             THEN [severity |-> "low", foundTier2 |-> TRUE, matchedKeywords |-> matched2]
             ELSE [severity |-> "none", foundTier2 |-> TRUE, matchedKeywords |-> matched2]
        ELSE NoTier2

\* countTier2SignalsInHistory(history)
countTier2SignalsInHistory(h) ==
    Cardinality({n \in 1..Len(h) :
        h[n].role = "user" /\ IncludesAny(toLowerCase(h[n].content), TIER_2_DISTRESS_KEYWORDS)})

\* detectDistressSignals(text) (deprecated wrapper)
detectDistressSignals(text) ==
    LET r == analyzeDistress(text, 0) IN r.severity = "high" \/ r.foundTier2

Trigger(kind, reason) == [kind |-> kind, reason |-> reason]

\* detectTriggers(text)
detectTriggers(text) ==
    LET t == toLowerCase(text)
        crisis == IF IncludesAny(t, CRISIS_KEYWORDS) THEN << Trigger("CRISIS", "crisis") >> ELSE << >>
        pii == IF EMAIL_RE_test(text) \/ PHONE_RE_test(text) \/ SSN_RE_test(text)
                  \/ ADDRESS_RE_test(text) \/ STREET_SHARE_RE_test(text)
               THEN << Trigger("PII", "pii") >> ELSE << >>
        contro == IF IncludesAny(t, CONTROVERSIAL_KEYWORDS)
                  THEN << Trigger("CONTROVERSIAL", "controversial") >> ELSE << >>
        insult == IF IncludesAny(t, INSULT_KEYWORDS) THEN << Trigger("INSULT", "insult") >> ELSE << >>
        hits == crisis \o pii \o contro \o insult
    IN  IF Len(hits) > 0 THEN hits ELSE << Trigger("NONE", "none") >>

\* Array.prototype.indexOf on SEVERITY_ORDER: zero-based, -1 when absent
indexOf(seq, x) ==
    IF \E n \in 1..Len(seq) : seq[n] = x
    THEN (CHOOSE n \in 1..Len(seq) : seq[n] = x /\ \A m \in 1..(n - 1) : seq[m] # x) - 1
    ELSE -1

\* the loop body with the comparison turned round
betterOf_reversed(best, trig) ==
    IF indexOf(SEVERITY_ORDER, trig.kind) > indexOf(SEVERITY_ORDER, best.kind) THEN trig ELSE best

\* the body of the for loop of prioritize: keep best unless trig ranks strictly before it
betterOf(best, trig) ==
    IF indexOf(SEVERITY_ORDER, trig.kind) < indexOf(SEVERITY_ORDER, best.kind) THEN trig ELSE best

RECURSIVE prioritizeLoop(_, _, _)
prioritizeLoop(triggers, n, best) ==
    IF n > Len(triggers) THEN best
    ELSE prioritizeLoop(triggers, n + 1, betterOf(best, triggers[n]))

\* prioritize(triggers)
prioritize(triggers) ==
    IF Len(triggers) = 0 THEN Trigger("NONE", "none")
    ELSE prioritizeLoop(triggers, 1, triggers[1])

\* shouldTerminateSession(kind)
shouldTerminateSession(kind) == kind = "CRISIS"

\* getLocalCrisisSupport(zip): "" models null
getLocalCrisisSupport(zip) ==
    IF StartsAt(zip, 1, "90210") THEN "Los Angeles County Mental Health: 1-800-854-7771"
    ELSE IF StartsAt(zip, 1, "10001") THEN "NYC Well: 1-888-NYC-WELL (1-888-692-9355)"
    ELSE ""

National == "988 Suicide & Crisis Lifeline (U.S.)"

\* crisisBanner(zip): zip "" models undefined
crisisBanner(zip) ==
    IF zip # "" /\ getLocalCrisisSupport(zip) # ""
    THEN "If you're in crisis, you can call or text " \o getLocalCrisisSupport(zip)
         \o " or the " \o National \o "."
    ELSE "If you're in crisis, you can call or text " \o National \o "."

-----------------------------------------------------------------------------
(* JSON.parse, on the texts of this model: an object of string, boolean and *)
(* null members, or one such scalar; any other text is a SyntaxError.       *)
(* A value is [t, v, o]: t its type, v the text of a scalar, o the members  *)
(* of an object.                                                            *)

Quote == "\""
JsonWs == {" ", "\n", "\t", "\r"}
NoMembers == << >>

JsonUndefined == [t |-> "undefined", v |-> "", o |-> NoMembers]
JsonNull == [t |-> "null", v |-> "", o |-> NoMembers]
JsonBool(b) == [t |-> "bool", v |-> IF b THEN "true" ELSE "false", o |-> NoMembers]
JsonStr(x) == [t |-> "str", v |-> x, o |-> NoMembers]
JsonObj(members) == [t |-> "obj", v |-> "", o |-> members]

ParseFail == [ok |-> FALSE, val |-> JsonUndefined, next |-> 0]
Parsed(val, next) == [ok |-> TRUE, val |-> val, next |-> next]

RECURSIVE skipWs(_, _)
skipWs(s, i) == IF i <= Len(s) /\ CharAt(s, i) \in JsonWs THEN skipWs(s, i + 1) ELSE i

\* a string literal at position i (escape sequences are outside the model's texts)
parseStringAt(s, i) ==
    LET closing == {j \in (i + 1)..Len(s) : CharAt(s, j) = Quote}
        j == CHOOSE j \in closing : \A m \in closing : j <= m
    IN  IF CharAt(s, i) # Quote \/ closing = {} THEN ParseFail
        ELSE IF \E m \in (i + 1)..(j - 1) : CharAt(s, m) \in {"\\", "\n"} THEN ParseFail
        ELSE Parsed(JsonStr(SubSeq(s, i + 1, j - 1)), j + 1)

parseScalarAt(s, i) ==
    IF CharAt(s, i) = Quote THEN parseStringAt(s, i)
    ELSE IF StartsAt(s, i, "true") THEN Parsed(JsonBool(TRUE), i + 4)
    ELSE IF StartsAt(s, i, "false") THEN Parsed(JsonBool(FALSE), i + 5)
    ELSE IF StartsAt(s, i, "null") THEN Parsed(JsonNull, i + 4)
    ELSE ParseFail

\* the members of an object from position i (the start of a member) to its closing brace
RECURSIVE parseMembersAt(_, _, _)
parseMembersAt(s, i, members) ==
    LET key == parseStringAt(s, i)
        colon == skipWs(s, key.next)
        val == parseScalarAt(s, skipWs(s, colon + 1))
        after == skipWs(s, val.next)
        added == [k \in DOMAIN members \cup {key.val.v} |->
                     IF k = key.val.v THEN val.val ELSE members[k]]
    IN  IF ~key.ok \/ CharAt(s, colon) # ":" \/ ~val.ok THEN ParseFail
        ELSE IF CharAt(s, after) = "}" THEN Parsed(JsonObj(added), after + 1)
        ELSE IF CharAt(s, after) = "," THEN parseMembersAt(s, skipWs(s, after + 1), added)
        ELSE ParseFail

parseValueAt(s, i) ==
    IF CharAt(s, i) = "{"
    THEN IF CharAt(s, skipWs(s, i + 1)) = "}"
         THEN Parsed(JsonObj(NoMembers), skipWs(s, i + 1) + 1)
         ELSE parseMembersAt(s, skipWs(s, i + 1), NoMembers)
    ELSE parseScalarAt(s, i)

\* JSON.parse(s): ok = FALSE models the SyntaxError it throws
JSONparse(s) ==
    LET r == parseValueAt(s, skipWs(s, 1))
    IN  IF r.ok /\ skipWs(s, r.next) = Len(s) + 1 THEN r ELSE ParseFail

\* property access data.key on a value that is not null or undefined
Member(val, key) ==
    IF val.t = "obj" /\ key \in DOMAIN val.o THEN val.o[key] ELSE JsonUndefined

\* JavaScript truthiness
Truthy(val) ==
    CASE val.t = "bool" -> val.v = "true"
      [] val.t = "str" -> val.v # ""
      [] val.t = "obj" -> TRUE
      [] OTHER -> FALSE

\* x || fallback for a string-valued x
TextOr(val, fallback) == IF val.t = "str" /\ val.v # "" THEN val.v ELSE fallback

-----------------------------------------------------------------------------
(* supabase/functions/moderate-response: the moderation edge function.      *)
(* The markdown fence, three backquotes, is written "~~~".                  *)

Fence == "~~~"

\* String.prototype.trim with the white space of the model's texts
RECURSIVE trimJsonWs(_)
trimJsonWs(s) ==
    IF Len(s) > 0 /\ CharAt(s, 1) \in JsonWs THEN trimJsonWs(SubSeq(s, 2, Len(s)))
    ELSE IF Len(s) > 0 /\ CharAt(s, Len(s)) \in JsonWs THEN trimJsonWs(SubSeq(s, 1, Len(s) - 1))
    ELSE s

\* s.replace(/^<prefix>\s*/, "")
stripLeading(s, prefix) ==
    IF StartsAt(s, 1, prefix)
    THEN SubSeq(s, skipWs(s, Len(prefix) + 1), Len(s))
    ELSE s

RECURSIVE dropTrailingWs(_)
dropTrailingWs(s) ==
    IF Len(s) > 0 /\ CharAt(s, Len(s)) \in JsonWs THEN dropTrailingWs(SubSeq(s, 1, Len(s) - 1)) ELSE s

\* s.replace(/\s*<fence>$/, "")
stripTrailingFence(s) ==
    IF Len(s) >= Len(Fence) /\ StartsAt(s, Len(s) - Len(Fence) + 1, Fence)
    THEN dropTrailingWs(SubSeq(s, 1, Len(s) - Len(Fence)))
    ELSE s

\* lines 80-86: strip markdown code blocks if present
stripCodeBlock(content) ==
    LET contentText == trimJsonWs(content)
    IN  IF StartsAt(contentText, 1, Fence \o "json")
        THEN stripTrailingFence(stripLeading(contentText, Fence \o "json"))
        ELSE IF StartsAt(contentText, 1, Fence)
        THEN stripTrailingFence(stripLeading(contentText, Fence))
        ELSE contentText

ModerationParseError == JsonObj(("safe" :> JsonBool(FALSE)) @@ ("reason" :> JsonStr("Moderation parsing error")))
ModerationSystemError ==
    JsonObj(("safe" :> JsonBool(FALSE)) @@ ("reason" :> JsonStr("Moderation system error - blocked for safety")))

\* what the call to the model gateway can do
GatewayOutcomes == {"ok", "http_error", "network_error", "timeout"}

\* the body the function answers with (always with status 200), given whether the
\* API key is configured, what the gateway call did, and the content of the
\* gateway's first choice ("" when it has none)
moderateResponseServe(env) ==
    IF ~env.apiKey THEN ModerationSystemError
    ELSE IF env.gateway \in {"network_error", "timeout"} THEN ModerationSystemError
    ELSE IF env.gateway = "http_error" THEN ModerationSystemError
    ELSE LET contentText == stripCodeBlock(IF env.content = "" THEN "{}" ELSE env.content)
             parsed == JSONparse(trimJsonWs(contentText))
         IN  IF parsed.ok THEN parsed.val ELSE ModerationParseError

-----------------------------------------------------------------------------
(* Index.tsx: the state of App after construction *)

NoTip == ""
Idle == [pc |-> "idle"]
DefaultSetup == [scene |-> "bookstore", zip |-> ""]

AppInit ==
    /\ history = << >>
    /\ cooldown = FALSE
    /\ ended = FALSE
    /\ busy = FALSE
    /\ showSetup = TRUE
    /\ setup = DefaultSetup
    /\ sessionId = 0
    /\ sessionDbId = 0
    /\ sessionToken = 0
    /\ sendPc = "idle"
    /\ sendCtx = Idle
    /\ starts = {}
    /\ nextSession = 0
    /\ sessionsTable = {}
    /\ moderationLogs = {}

FnIdle == fnPc = "off" /\ fnArg = Idle /\ fnRes = Idle

-----------------------------------------------------------------------------
(* guardrails.ts: moderateJordanResponse, the client side of moderation *)

BlockedLine == "I'm having trouble thinking of what to say. Can you ask me something else?"
TechnicalLine == "Sorry, I'm having technical difficulties. Let's try again!"
GeneratorUnavailableLine ==
    "(Generator unavailable) Let's keep it simple-what's one thing you've been reading or watching lately?"

\* what supabase.functions.invoke("moderate-response") hands back: error set (the call
\* failed or threw), or the function's body as data
InvokeError == [error |-> TRUE, data |-> JsonNull]
InvokeData(body) == [error |-> FALSE, data |-> body]
\* no invoke has answered yet
NotInvoked == [error |-> FALSE, data |-> JsonUndefined]

\* a variant that blocks only on a literal safe = false
moderationBranch_onlyFalse(invoked) ==
    IF invoked.error THEN "throw"
    ELSE IF invoked.data.t \in {"null", "undefined"} THEN "throw"
    ELSE IF Member(invoked.data, "safe") = JsonBool(FALSE) THEN "blocked"
    ELSE "safe"

\* lines 170-175: the first decision of moderateJordanResponse on the invoke result:
\* "throw" (error, or data.safe read on null) leads to the catch block
moderationBranch(invoked) ==
    IF invoked.error THEN "throw"
    ELSE IF invoked.data.t \in {"null", "undefined"} THEN "throw"
    ELSE IF ~Truthy(Member(invoked.data, "safe")) THEN "blocked"
    ELSE "safe"

\* line 183: block_reason: data.reason || "Unknown reason"
blockReason(data) == TextOr(Member(data, "reason"), "Unknown reason")

\* lines 188-203: the value moderateJordanResponse returns on each branch
moderationResult(branch, response, data) ==
    CASE branch = "safe" -> [safe |-> TRUE, reason |-> "", finalResponse |-> response]
      [] branch = "blocked" ->
            [safe |-> FALSE, reason |-> TextOr(Member(data, "reason"), ""), finalResponse |-> BlockedLine]
      [] OTHER ->
            [safe |-> FALSE, reason |-> "Moderation system error", finalResponse |-> TechnicalLine]

-----------------------------------------------------------------------------
(* Index.tsx: helpers of the turn orchestrator *)

Turn(role, content, coachTip) == [role |-> role, content |-> content, coachTip |-> coachTip]

\* openingLine(scene)
openingLine(scene) ==
    CASE scene = "coffee" -> "Hey - this line moves fast here. What do you usually order?"
      [] scene = "campus" -> "Orientation's wild. What are you hoping to check out first?"
      [] OTHER -> "That stack looks good - anything you'd recommend?"

\* Array.prototype.slice(-n)
sliceLast(seq, n) == SubSeq(seq, IF Len(seq) > n THEN Len(seq) - n + 1 ELSE 1, Len(seq))

\* s.split(" ").length
splitSpaceLength(str) == Cardinality({i \in 1..Len(str) : CharAt(str, i) = " "}) + 1

\* shouldStallNudge(history) of Index.tsx
shouldStallNudgeIndex(h) ==
    LET last4 == sliceLast(h, 4)
        userOnly == SelectSeq(last4, LAMBDA t : t.role = "user")
        neutralish(str) == splitSpaceLength(str) < 8 /\ ~hasQuestionMark(str)
    IN  IF Len(userOnly) < 2 THEN FALSE
        ELSE \A n \in 1..Len(sliceLast(userOnly, 2)) : neutralish(trim(sliceLast(userOnly, 2)[n].content))

CrisisTip == "I'm just for everyday small talk practice. Please reach out to 988 if you're in crisis."
CrisisReplyHead == "I'm here only to practice everyday conversation. "
CrisisReply(zip) == CrisisReplyHead \o crisisBanner(zip) \o " Would you like to talk about books or coffee?"

PiiTip(reason) ==
    "Your message contained personal contact info (" \o reason
    \o "). Avoid sharing emails, phone numbers, or addresses with strangers. Keep details general."
ControversialTip(topic) ==
    Quote \o topic
    \o "\" can be polarizing for casual small talk. Try a more neutral topic like hobbies, books, or local spots."
StallTip ==
    "Your last few messages were brief and didn't ask questions. Try adding an open-ended question to keep the conversation flowing."
BriefTip ==
    "Your message was very brief. Try elaborating a bit and asking a question to keep the conversation going."
LongTip ==
    "That's quite long without a question. In small talk, keep it concise and include a question to invite response."

\* triggers.find(t => t.kind === "CONTROVERSIAL")?.reason || "topic"
controversialTopic(triggers) ==
    LET found == SelectSeq(triggers, LAMBDA t : t.kind = "CONTROVERSIAL")
    IN  IF Len(found) > 0 /\ found[1].reason # "" THEN found[1].reason ELSE "topic"

\* send, step 3: the coach tip attached to the user turn (NoTip models undefined)
sendCoachTip(cd, main, triggers, h, userText) ==
    LET wordCount == splitWsLength(trim(userText))
        hasQuestion == hasQuestionMark(userText)
    IN  IF cd THEN NoTip
        ELSE IF main.kind = "PII" THEN PiiTip(main.reason)
        ELSE IF main.kind = "CONTROVERSIAL" THEN ControversialTip(controversialTopic(triggers))
        ELSE IF shouldStallNudgeIndex(h) THEN StallTip
        ELSE IF wordCount < 5 /\ ~hasQuestion THEN BriefTip
        ELSE IF wordCount > 40 /\ ~hasQuestion THEN LongTip
        ELSE NoTip

-----------------------------------------------------------------------------
(* Inputs of the orchestrator *)

Scenes == {"bookstore", "coffee", "campus"}

\* what the setup dialog hands to handleStartConversation
SetupChoices == { [scene |-> "bookstore", zip |-> ""], [scene |-> "coffee", zip |-> "90210"] }

\* what the user types
UserTexts == { "I want to kill myself",
               "i think i'm hopeless about this exam",
               "call me at 555-123-4567",
               "that's a stupid book",
               "I like sci-fi novels. What about you?",
               "  " }

\* candidate replies of the reply generator
CandidateReplies == { "What's your phone number?" }

\* content of the moderation model's answer
ModerationContents == { "{\"safe\": true, \"reason\": \"\"}",
                        "~~~json\n{\"safe\": false, \"reason\": \"PII request\"}\n~~~",
                        "I think this reply is safe.",
                        "null",
                        "" }

ModerationEnvs == [apiKey : BOOLEAN, gateway : GatewayOutcomes, content : ModerationContents]

\* every result supabase.functions.invoke("moderate-response") can have
ModerationInvocations == {InvokeError} \cup {InvokeData(moderateResponseServe(env)) : env \in ModerationEnvs}

\* send, step 1: const triggers = detectTriggers(userText), tabulated per typed text
triggersOfText == [text \in UserTexts |-> detectTriggers(trim(text))]

UserTurns(h) == {n \in 1..Len(h) : h[n].role = "user"}

-----------------------------------------------------------------------------
(* Index.tsx: the handlers of App *)

\* a new row of table sessions
SessionRow(id, token) ==
    [id |-> id, session_id |-> id, session_token |-> token,
     ended |-> FALSE, crisis_detected |-> FALSE, total_turns |-> 0]

\* the rows of sessions after the effect on a change of history has called updateSession
\* with the state of that render: nothing is sent without a stored session, a token or
\* a turn; the update is conditioned on id and token; its result is not looked at, and
\* stored tells whether the store carried it out
updateSession(table, dbId, token, h, stored) ==
    IF dbId # 0 /\ token # 0 /\ Len(h) > 0 /\ stored
    THEN {IF r.id = dbId /\ r.session_token = token
          THEN [r EXCEPT !.total_turns = Len(h)] ELSE r : r \in table}
    ELSE table

\* handleStartConversation, up to the insert of createSession being sent
StartConversation(setupData) ==
    /\ showSetup
    /\ nextSession < MaxSessions
    /\ setup' = setupData
    /\ showSetup' = FALSE
    /\ nextSession' = nextSession + 1
    /\ sessionId' = nextSession + 1
    /\ sessionToken' = nextSession + 1
    /\ starts' = starts \cup {[id |-> nextSession + 1, scene |-> setupData.scene, pc |-> "insert"]}
    /\ UNCHANGED << history, cooldown, ended, busy, sessionDbId, sendPc, sendCtx,
                    sessionsTable, moderationLogs, fnVars >>

\* createSession: the insert into sessions succeeded; the metadata insert is sent
CreateSessionInserted(st) ==
    /\ st \in starts /\ st.pc = "insert"
    /\ sessionsTable' = sessionsTable \cup {SessionRow(st.id, st.id)}
    /\ starts' = (starts \ {st}) \cup {[st EXCEPT !.pc = "metadata"]}
    /\ UNCHANGED << history, cooldown, ended, busy, showSetup, setup, sessionId, sessionDbId,
                    sessionToken, sendPc, sendCtx, nextSession, moderationLogs, fnVars >>

\* createSession returned the row id: setSessionDbId, then the opening line; the
\* effect stores the transcript
CreateSessionDone(st, stored) ==
    /\ st \in starts /\ st.pc = "metadata"
    /\ sessionDbId' = st.id
    /\ history' = << Turn("assistant", openingLine(st.scene), NoTip) >>
    /\ starts' = starts \ {st}
    /\ sessionsTable' = updateSession(sessionsTable, sessionDbId', sessionToken, history', stored)
    /\ UNCHANGED << cooldown, ended, busy, showSetup, setup, sessionId, sessionToken,
                    sendPc, sendCtx, nextSession, moderationLogs, fnVars >>

\* createSession returned null (the insert failed): the conversation starts without logging
CreateSessionFailed(st) ==
    /\ st \in starts /\ st.pc = "insert"
    /\ history' = << Turn("assistant", openingLine(st.scene), NoTip) >>
    /\ starts' = starts \ {st}
    /\ UNCHANGED << cooldown, ended, busy, showSetup, setup, sessionId, sessionDbId, sessionToken,
                    sendPc, sendCtx, nextSession, sessionsTable, moderationLogs, fnVars >>

\* a variant that accepts a send while another one is running
CanSend_ignoreBusy(text) ==
    /\ trim(text) # ""
    /\ ~ended
    /\ Len(history) > 0
    /\ Cardinality(UserTurns(history)) < MaxExchanges

\* the guard of send and of the input area that calls it
CanSend(text) ==
    /\ trim(text) # ""
    /\ ~busy
    /\ ~ended
    /\ Len(history) > 0
    /\ Cardinality(UserTurns(history)) < MaxExchanges

\* send, steps 1 and 2: the prioritised trigger is CRISIS; the effect stores the transcript
SendCrisis(text, stored) ==
    LET userText == trim(text)
        main == prioritize(triggersOfText[text])
    IN  /\ CanSend(text)
        /\ main.kind = "CRISIS"
        /\ history' = history \o << Turn("user", userText, CrisisTip),
                                    Turn("assistant", CrisisReply(setup.zip), NoTip) >>
        /\ busy' = FALSE
        /\ cooldown' = TRUE
        /\ sessionsTable' = updateSession(sessionsTable, sessionDbId, sessionToken, history', stored)
        /\ UNCHANGED << ended, showSetup, setup, sessionId, sessionDbId, sessionToken, sendPc,
                        sendCtx, starts, nextSession, moderationLogs, fnVars >>

\* send, steps 1 to 5: any other trigger; the coach tip is decided and the reply requested
SendBegin(text) ==
    LET userText == trim(text)
        triggers == triggersOfText[text]
        main == prioritize(triggers)
    IN  /\ CanSend(text)
        /\ main.kind # "CRISIS"
        /\ busy' = TRUE
        /\ sendPc' = "chat"
        /\ sendCtx' = [userText |-> userText,
                       coachTip |-> sendCoachTip(cooldown, main, triggers, history, userText),
                       sessionDbId |-> sessionDbId,
                       candidate |-> "", moderation |-> NotInvoked, reply |-> ""]
        /\ UNCHANGED << history, cooldown, ended, showSetup, setup, sessionId, sessionDbId,
                        sessionToken, starts, nextSession, sessionsTable, moderationLogs, fnVars >>

\* send, step 5: the adapter answered with a candidate reply
ChatReplied(candidate) ==
    /\ sendPc = "chat"
    /\ sendPc' = "moderate"
    /\ sendCtx' = [sendCtx EXCEPT !.candidate = candidate, !.reply = candidate]
    /\ UNCHANGED << history, cooldown, ended, busy, showSetup, setup, sessionId, sessionDbId,
                    sessionToken, starts, nextSession, sessionsTable, moderationLogs, fnVars >>

\* send, step 5: the adapter threw; the generator-unavailable line becomes the reply
ChatFailed ==
    /\ sendPc = "chat"
    /\ sendPc' = "moderate"
    /\ sendCtx' = [sendCtx EXCEPT !.candidate = GeneratorUnavailableLine,
                                  !.reply = GeneratorUnavailableLine]
    /\ UNCHANGED << history, cooldown, ended, busy, showSetup, setup, sessionId, sessionDbId,
                    sessionToken, starts, nextSession, sessionsTable, moderationLogs, fnVars >>

\* send, step 6: moderateJordanResponse got the result of the invoke; a blocked reply
\* of a logged session goes on to the insert into moderation_logs
ModerationAnswered(invoked) ==
    LET branch == moderationBranch(invoked)
        result == moderationResult(branch, sendCtx.reply, invoked.data)
    IN  /\ sendPc = "moderate"
        /\ sendPc' = IF branch = "blocked" /\ sendCtx.sessionDbId # 0 THEN "log" ELSE "commit"
        /\ sendCtx' = [sendCtx EXCEPT !.moderation = invoked,
                                      !.reply = IF result.safe THEN sendCtx.reply ELSE result.finalResponse]
        /\ UNCHANGED << history, cooldown, ended, busy, showSetup, setup, sessionId, sessionDbId,
                        sessionToken, starts, nextSession, sessionsTable, moderationLogs, fnVars >>

\* a variant in which a refused insert throws into the catch block
ModerationLogged_throws(stored) ==
    /\ sendPc = "log"
    /\ sendPc' = "commit"
    /\ moderationLogs' = IF stored
                         THEN moderationLogs \cup {[session_id |-> sendCtx.sessionDbId,
                                                    original_response |-> sendCtx.candidate,
                                                    block_reason |-> blockReason(sendCtx.moderation.data)]}
                         ELSE moderationLogs
    /\ sendCtx' = IF stored THEN sendCtx ELSE [sendCtx EXCEPT !.reply = TechnicalLine]
    /\ UNCHANGED << history, cooldown, ended, busy, showSetup, setup, sessionId, sessionDbId,
                    sessionToken, starts, nextSession, sessionsTable, fnVars >>

\* moderateJordanResponse: the insert into moderation_logs came back (stored or refused)
ModerationLogged(stored) ==
    /\ sendPc = "log"
    /\ sendPc' = "commit"
    /\ moderationLogs' = IF stored
                         THEN moderationLogs \cup {[session_id |-> sendCtx.sessionDbId,
                                                    original_response |-> sendCtx.candidate,
                                                    block_reason |-> blockReason(sendCtx.moderation.data)]}
                         ELSE moderationLogs
    /\ UNCHANGED << history, cooldown, ended, busy, showSetup, setup, sessionId, sessionDbId,
                    sessionToken, sendCtx, starts, nextSession, sessionsTable, fnVars >>

\* send, step 7: commit; the effect stores the transcript
SendCommit(stored) ==
    /\ sendPc = "commit"
    /\ history' = history \o << Turn("user", sendCtx.userText, sendCtx.coachTip),
                                Turn("assistant", sendCtx.reply, NoTip) >>
    /\ busy' = FALSE
    /\ cooldown' = (sendCtx.coachTip # NoTip)
    /\ sendPc' = "idle"
    /\ sendCtx' = Idle
    /\ sessionsTable' = updateSession(sessionsTable, sessionDbId, sessionToken, history', stored)
    /\ UNCHANGED << ended, showSetup, setup, sessionId, sessionDbId, sessionToken, starts,
                    nextSession, moderationLogs, fnVars >>

\* endSession: setEnded, then the session row is marked ended under id and token
\* (stored: the store carried the update out; the result is not looked at)
EndSession(stored) ==
    /\ ~ended
    /\ Len(history) > 0
    /\ ended' = TRUE
    /\ sessionsTable' = IF sessionDbId # 0 /\ sessionToken # 0 /\ stored
                        THEN {IF r.id = sessionDbId /\ r.session_token = sessionToken
                              THEN [r EXCEPT !.ended = TRUE] ELSE r : r \in sessionsTable}
                        ELSE sessionsTable
    /\ UNCHANGED << history, cooldown, busy, showSetup, setup, sessionId, sessionDbId, sessionToken,
                    sendPc, sendCtx, starts, nextSession, moderationLogs, fnVars >>

\* reset
Reset ==
    /\ Len(history) > 0 \/ ended
    /\ history' = << >>
    /\ ended' = FALSE
    /\ cooldown' = FALSE
    /\ sessionId' = 0
    /\ sessionDbId' = 0
    /\ sessionToken' = 0
    /\ showSetup' = TRUE
    /\ UNCHANGED << busy, setup, sendPc, sendCtx, starts, nextSession, sessionsTable,
                    moderationLogs, fnVars >>

Init == AppInit /\ FnIdle

Next ==
    \/ \E setupData \in SetupChoices : StartConversation(setupData)
    \/ \E st \in starts : CreateSessionInserted(st)
    \/ \E st \in starts, stored \in BOOLEAN : CreateSessionDone(st, stored)
    \/ \E st \in starts : CreateSessionFailed(st)
    \/ \E text \in UserTexts, stored \in BOOLEAN : SendCrisis(text, stored)
    \/ \E text \in UserTexts : SendBegin(text)
    \/ \E candidate \in CandidateReplies : ChatReplied(candidate)
    \/ ChatFailed
    \/ \E invoked \in ModerationInvocations : ModerationAnswered(invoked)
    \/ \E stored \in BOOLEAN : ModerationLogged(stored)
    \/ \E stored \in BOOLEAN : SendCommit(stored)
    \/ \E stored \in BOOLEAN : EndSession(stored)
    \/ Reset

Spec == Init /\ [][Next]_vars

-----------------------------------------------------------------------------
(* One conversation: the state handleStartConversation leaves, with the     *)
(* session stored (logged) or not, and the handlers of the conversation.    *)

InitConversation ==
    /\ \E setupData \in SetupChoices, logged \in BOOLEAN, stored \in BOOLEAN :
          /\ setup = setupData
          /\ history = << Turn("assistant", openingLine(setupData.scene), NoTip) >>
          /\ sessionDbId = IF logged THEN 1 ELSE 0
          /\ sessionsTable = IF logged
                             THEN updateSession({SessionRow(1, 1)}, 1, 1, history, stored)
                             ELSE {}
    /\ cooldown = FALSE /\ ended = FALSE /\ busy = FALSE /\ showSetup = FALSE
    /\ sessionId = 1 /\ sessionToken = 1 /\ nextSession = 1
    /\ sendPc = "idle" /\ sendCtx = Idle /\ starts = {}
    /\ moderationLogs = {}
    /\ FnIdle

\* what the user types in it: a crisis message, one that gets a tip, one that gets none
ConversationTexts == { "I want to kill myself",
                       "call me at 555-123-4567",
                       "I like sci-fi novels. What about you?" }

NextConversation ==
    \/ \E text \in ConversationTexts, stored \in BOOLEAN : SendCrisis(text, stored)
    \/ \E text \in ConversationTexts : SendBegin(text)
    \/ \E candidate \in CandidateReplies : ChatReplied(candidate)
    \/ ChatFailed
    \/ \E invoked \in ModerationInvocations : ModerationAnswered(invoked)
    \/ \E stored \in BOOLEAN : ModerationLogged(stored)
    \/ \E stored \in BOOLEAN : SendCommit(stored)
    \/ \E stored \in BOOLEAN : EndSession(stored)

SpecConversation == InitConversation /\ [][NextConversation]_vars

-----------------------------------------------------------------------------
(* constants.ts: the small-talk patterns of the coaching engine *)

\* INTRODUCTION_PATTERNS.jordanIntro
jordanIntro_test(msg) ==
    BoundedAny(toLowerCase(msg), << "i'm jordan", "i am jordan", "name's jordan", "name is jordan" >>)

\* INTRODUCTION_PATTERNS.userIntro
userIntro_test(msg) ==
    AnyThenWord(toLowerCase(msg),
                << "i'm", "i am", "my name is", "my name's", "call me", "they call me", "people call me" >>)

\* INTRODUCTION_PATTERNS.casualNameShare: /^(hey,?\s*)?(i'm|im)\s+\w+[.!]?$/i
casualNameShare_test(msg) ==
    LET str == toLowerCase(msg)
        afterHey == IF StartsAt(str, 1, "hey")
                    THEN {skipSpace(str, IF CharAt(str, 4) = "," THEN 5 ELSE 4)}
                    ELSE {}
    IN  \E p \in {1} \cup afterHey, a \in {"i'm", "im"} :
            /\ StartsAt(str, p, a)
            /\ CharAt(str, p + Len(a)) \in SpaceChars
            /\ LET w == skipSpace(str, p + Len(a))
                   e == wordRunEnd(str, w)
               IN  /\ e >= w
                   /\ \/ e = Len(str)
                      \/ e + 1 = Len(str) /\ CharAt(str, e + 1) \in {".", "!"}

ACKNOWLEDGMENT_WORDS == <<
    "cool", "nice", "neat", "awesome", "interesting", "oh", "yeah", "yea",
    "wow", "really", "true", "right", "for sure", "totally", "same",
    "gotcha", "makes sense", "i see", "that's cool", "that's awesome",
    "sounds good", "sounds fun", "sounds like", "ah", "huh", "oh wow" >>

\* DEFLECTION_PATTERNS.some(pattern => pattern.test(str))
DEFLECTION_PATTERNS_some(str) ==
    \/ str \in {"you", "you?"}
    \/ \E a \in {"what about", "how about", "and"} : str \in {a \o " you", a \o " you?"}
    \/ \E a \in {"you", "u"} :
          StartsAt(str, 1, a) /\ From(str, skipSpace(str, Len(a) + 1)) \in {"", "?", "too", "too?", "2", "2?"}
    \/ str \in {"hbu", "hbu?", "wbu", "wbu?"}
    \/ /\ StartsAt(str, 1, "same")
       /\ From(str, skipSpace(str, IF CharAt(str, 5) \in {",", "."} THEN 6 ELSE 5)) \in {"you", "you?", "u", "u?"}

\* MINIMAL_RESPONSE_PATTERNS.some(pattern => pattern.test(str))
MINIMAL_RESPONSE_PATTERNS_some(str) ==
    \/ AnyThenTail(str, << "cool", "nice", "neat", "awesome", "interesting", "ok", "okay", "k", "kk",
                          "yeah", "yea", "yep", "nope", "mhm", "lol", "lmao", "haha", "true", "facts",
                          "bet", "word", "same", "mood", "vibes", "lit", "fire", "slaps", "based" >>,
                   {".", "!"})
    \/ PairThenTail(str, << "that's", "thats" >>,
                    << "cool", "nice", "awesome", "dope", "lit", "fire" >>, {".", "!"})
    \/ PairThenTail(str, << "sounds", "seems" >>, << "good", "cool", "fun", "nice" >>, {".", "!"})

-----------------------------------------------------------------------------
(* coachingEngine.ts: the helpers of generateCoachTip *)

\* detectDistressLevel(text): 0 none, 1 low, 2 high
highDistressPatterns == <<
    "can't keep going", "can't go on", "give up", "no point", "want to die",
    "kill myself", "end it all", "better off dead", "no way out", "can't take it" >>
lowDistressPatterns == <<
    "struggling", "hard time", "feeling down", "stressed out", "overwhelmed",
    "depressed", "anxious", "worried", "can't handle", "falling apart",
    "losing it", "breaking down", "burnt out", "exhausted" >>

detectDistressLevel(text) ==
    IF IncludesAny(toLowerCase(text), highDistressPatterns) THEN 2
    ELSE IF IncludesAny(toLowerCase(text), lowDistressPatterns) THEN 1
    ELSE 0

\* hasDescendingTrajectory(history, currentText)
hasDescendingTrajectory(h, currentText) ==
    LET recentMessages == Append(sliceLast(h, 5), Turn("user", currentText, NoTip))
        distressCount == Cardinality({n \in 1..Len(recentMessages) :
                                        /\ recentMessages[n].role = "user"
                                        /\ detectDistressLevel(recentMessages[n].content) > 0})
    IN  distressCount >= 2

\* text.trim().split(/\s+/).length
wordCountOf(text) == splitWsLength(trim(text))

\* greetingOnlyPattern.test(text.toLowerCase())
greetingOnlyPattern_test(text) ==
    AnyThenTail(toLowerCase(text),
                << "hey", "hi", "hello", "yo", "sup", "what's up", "wassup", "hiya", "howdy" >>,
                SpaceChars \cup {"!", "."})

\* history.filter(h => h.role === role)
withRole(h, role) == SelectSeq(h, LAMBDA t : t.role = role)

\* history.slice(-1).find(h => h.role === "assistant")?.content || ""
lastIfJordan(h) ==
    IF Len(h) > 0 /\ h[Len(h)].role = "assistant" THEN h[Len(h)].content ELSE ""

SelfIntroTip ==
    "Tip: Jordan shared their name - dropping yours in ('I'm [name]') is an easy way to make the chat feel more personal."

\* checkSelfIntroduction(userText, history)
checkSelfIntroduction(userText, h) ==
    LET jordanMsgs == withRole(h, "assistant")
        jordanFirstMsg == IF Len(jordanMsgs) > 0 THEN jordanMsgs[1].content ELSE ""
        userMsgs == withRole(h, "user")
        allUserMessages == {userMsgs[n].content : n \in 1..Len(userMsgs)} \cup {userText}
        userIntroduced == \E msg \in allUserMessages : userIntro_test(msg) \/ casualNameShare_test(msg)
    IN  IF Len(h) = 0 \/ Len(h) > 3 THEN NoTip
        ELSE IF ~jordanIntro_test(jordanFirstMsg) THEN NoTip
        ELSE IF ~userIntroduced /\ Len(h) >= 1 THEN SelfIntroTip
        ELSE NoTip

ActiveListeningTip ==
    "Tip: a quick 'oh cool!' or 'nice!' before your question can make the conversation feel warmer."

\* checkActiveListening(userText, history)
checkActiveListening(userText, h) ==
    LET lastJordan == h[Len(h)]
        userLower == trim(toLowerCase(userText))
        hasAcknowledgment ==
            \E n \in 1..Len(ACKNOWLEDGMENT_WORDS) : BoundedAny(userLower, << ACKNOWLEDGMENT_WORDS[n] >>)
    IN  IF Len(h) < 2 THEN NoTip
        ELSE IF lastJordan.role # "assistant" THEN NoTip
        ELSE IF hasQuestionMark(lastJordan.content) THEN NoTip
        ELSE IF ~hasQuestionMark(userText) THEN NoTip
        ELSE IF hasAcknowledgment THEN NoTip
        ELSE IF wordCountOf(userText) < 10 THEN ActiveListeningTip
        ELSE NoTip

BuildOnShareTip ==
    "Tip: Jordan just shared something - a follow-up like 'how'd you get into that?' keeps the convo going."

\* checkBuildOnShare(userText, history)
checkBuildOnShare(userText, h) ==
    LET lastJordan == h[Len(h)]
        jordanContent == toLowerCase(lastJordan.content)
        jordanSharedPersonal == AnyThenWord(jordanContent, << "i", "i'm", "i've", "my", "i'd", "i'll" >>)
        userLower == trim(toLowerCase(userText))
        isMinimalResponse == MINIMAL_RESPONSE_PATTERNS_some(userLower)
    IN  IF Len(h) < 2 THEN NoTip
        ELSE IF lastJordan.role # "assistant" THEN NoTip
        ELSE IF ~jordanSharedPersonal THEN NoTip
        ELSE IF (isMinimalResponse \/ wordCountOf(userText) <= 3) /\ ~hasQuestionMark(userText)
             THEN BuildOnShareTip
        ELSE NoTip

DeflectionTip ==
    "Good instinct to ask back! Try adding your own thought first - 'I usually go with X. You?' makes it more of an exchange."

\* checkDeflection(userText, history)
checkDeflection(userText, h) ==
    LET lastJordan == h[Len(h)]
    IN  IF Len(h) < 2 THEN NoTip
        ELSE IF lastJordan.role # "assistant" THEN NoTip
        ELSE IF ~hasQuestionMark(lastJordan.content) THEN NoTip
        ELSE IF DEFLECTION_PATTERNS_some(trim(toLowerCase(userText))) THEN DeflectionTip
        ELSE NoTip

QuestionWords == {"what", "where", "how", "why", "which", "who", "when"}
TopicStopWords == QuestionWords \cup {"do", "does", "did", "is", "are", "was", "were", "you", "your"}

RepeatedQuestionTip ==
    "Tip: Jordan touched on this earlier - try building on what they said, like 'you mentioned X - tell me more about that!'"

\* the places where /\b(what|where|how|why|which|who|when)\s+[^?]+/ can match
topicStarts(str) ==
    {i \in 1..Len(str) :
        /\ WordBoundary(str, i)
        /\ \E w \in QuestionWords :
              /\ StartsAt(str, i, w)
              /\ CharAt(str, i + Len(w)) \in SpaceChars
              /\ i + Len(w) + 1 <= Len(str)
              /\ CharAt(str, i + Len(w) + 1) # "?"}

\* the last position before the next "?" (the match takes every character that is no "?")
topicEnd(str, i) ==
    LET marks == IndexesOf(str, "?", i) IN IF marks = {} THEN Len(str) ELSE Min(marks) - 1

\* userQuestion.match(/.../gi): the matches, leftmost first and never overlapping
questionTopics(str) ==
    {SubSeq(str, i, topicEnd(str, i)) :
        i \in {j \in topicStarts(str) : \A k \in topicStarts(str) : k < j => topicEnd(str, k) < j}}

\* topic.replace(/\b(what|...|your)\b/g, ""): a run of word characters that is a stop word goes
RECURSIVE removeStopWords(_, _)
removeStopWords(str, i) ==
    IF i > Len(str) THEN ""
    ELSE IF IsWordAt(str, i) /\ ~IsWordAt(str, i - 1)
         THEN LET e == wordRunEnd(str, i)
                  w == SubSeq(str, i, e)
              IN  (IF w \in TopicStopWords THEN "" ELSE w) \o removeStopWords(str, e + 1)
         ELSE CharAt(str, i) \o removeStopWords(str, i + 1)

\* .trim().split(/\s+/).filter(w => w.length > 3): the pieces kept, by their places in str
longPieces(str) ==
    {<< a, b >> \in (1..Len(str)) \X (1..Len(str)) :
        /\ b - a + 1 > 3
        /\ \A n \in a..b : CharAt(str, n) \notin SpaceChars
        /\ (a = 1 \/ CharAt(str, a - 1) \in SpaceChars)
        /\ (b = Len(str) \/ CharAt(str, b + 1) \in SpaceChars)}

topicAnsweredBy(topic, jordanMsg) ==
    LET cleaned == removeStopWords(toLowerCase(topic), 1)
        topicWords == longPieces(cleaned)
        matchCount == Cardinality({w \in topicWords : Includes(jordanMsg, SubSeq(cleaned, w[1], w[2]))})
    IN  /\ topicWords # {}
        /\ matchCount >= (IF Cardinality(topicWords) < 2 THEN Cardinality(topicWords) ELSE 2)

\* checkRepeatedQuestion(userText, history)
checkRepeatedQuestion(userText, h) ==
    LET jordanMsgs == withRole(h, "assistant")
        topics == questionTopics(toLowerCase(userText))
        alreadyAnswered ==
            \E n \in 1..Len(jordanMsgs), topic \in topics :
                topicAnsweredBy(topic, toLowerCase(jordanMsgs[n].content))
    IN  IF alreadyAnswered THEN RepeatedQuestionTip ELSE NoTip

\* windDownPatterns, in order, each /\b(...)/i
leavingCue(str) ==
    LeadingAny(str, << "should get going", "should head out", "should take off", "should grab",
                       "should run", "gotta go", "gotta run", "gotta get going" >>)
farewellCue(str) ==
    LeadingAny(str, << "take care", "see you", "good luck", "catch you later", "have a good",
                       "nice talking", "good chatting" >>)
transitionCue(str) == LeadingAny(str, << "anyway", "alright", "well then", "well, then" >>)
releaseCue(str) == LeadingAny(str, << "let you get back", "let you go", "i'll let you" >>)

\* the type of the first pattern that matches msg, "" when none does
exitTypeOf(msg) ==
    LET str == toLowerCase(msg)
    IN  IF leavingCue(str) THEN "leaving"
        ELSE IF farewellCue(str) THEN "farewell"
        ELSE IF transitionCue(str) THEN "transition"
        ELSE IF releaseCue(str) THEN "release"
        ELSE ""

WrapUpTip ==
    "Tip: sounds like Jordan's wrapping up - a friendly 'nice talking to you!' or 'take care!' lands well here."
WindDownTip ==
    "Tip: Jordan's winding down - matching their energy with a casual goodbye wraps things up nicely."

\* checkExitCues(userText, history, jordanEnded)
checkExitCues(userText, h, jordanEnded) ==
    LET lastTwo == sliceLast(withRole(sliceLast(h, 5), "assistant"), 2)
        cued == {n \in 1..Len(lastTwo) : exitTypeOf(lastTwo[n].content) # ""}
        exitType == IF cued = {} THEN "" ELSE exitTypeOf(lastTwo[Min(cued)].content)
        userWindingDown ==
            LeadingAny(toLowerCase(userText),
                       << "bye", "goodbye", "see you", "take care", "thanks", "gotta go",
                          "have a good", "nice talking" >>)
    IN  IF jordanEnded THEN NoTip
        ELSE IF exitType # "" /\ ~userWindingDown
             THEN (IF exitType \in {"leaving", "farewell"} THEN WrapUpTip ELSE WindDownTip)
        ELSE NoTip

\* shouldStallNudge(history) of the coaching engine
shouldStallNudge(h) ==
    LET lastThreeUser == sliceLast(withRole(h, "user"), 3)
        hasDistress == \E n \in 1..Len(lastThreeUser) : detectDistressLevel(lastThreeUser[n].content) > 0
    IN  IF Len(h) < 4 THEN FALSE
        ELSE IF hasDistress THEN FALSE
        ELSE \A n \in 1..Len(lastThreeUser) :
                wordCountOf(lastThreeUser[n].content) < 8 /\ ~hasQuestionMark(lastThreeUser[n].content)

-----------------------------------------------------------------------------
(* coachingEngine.ts: generateCoachTip *)

PrivateInfoTip ==
    "Keep personal info private in casual conversations. Use general details instead of specific contact info."
HeavyTopicTip ==
    "Topics like politics or religion can derail small talk. Try lighter subjects to build rapport first."
CrisisAdjacentTip ==
    "That's a heavy or personal topic for casual small talk. Try pivoting to something lighter like hobbies, the scene, or asking Jordan a question."
AnswerChanceTip == "Jordan asked you something - that's a great chance to share a bit about yourself."
AnswerFirstTip == "Tip: answering Jordan's question before asking yours helps the conversation feel balanced."
GreetingAskedTip == "Tip: Jordan asked you something - this is a great opening to share a bit about yourself!"
GreetingOnlyTip == "Tip: after 'hey', try adding a thought or question to get the conversation rolling."
StuckAskedTip ==
    "Feeling stuck? Try: 'Hmm, I haven't thought about that - what about you?' It's okay to redirect."
StuckTip ==
    "Not sure what to say? Ask Jordan to share more: 'How'd you get into that?' shows genuine curiosity."
InterviewTip ==
    "Nice - you're curious! Mixing in something about yourself can make it feel more like a two-way chat."
ReciprocityTip ==
    "Tip: tossing a question back to Jordan - like 'what about you?' - keeps the energy flowing both ways."
AskBackTip ==
    "Tip: people love being asked about themselves - a simple 'what about you?' can open things up."
RhythmTip ==
    "You're getting into a rhythm! Notice how open-ended questions ('What do you think about...?') invite more interesting answers than yes/no questions."
WrapAroundTip ==
    "Conversations often wrap up around now. Watch for exit cues like 'I should get going' - they're invitations to say goodbye gracefully."
MomentumTip ==
    "Tip: adding a quick thought or follow-up question - like 'Nice! What got you into that?' - can help keep the momentum going."
InviteBackTip ==
    "Great detail! End with a question like 'What do you think?' to invite Jordan back into the conversation."
OvershareTip ==
    "Nice opener! In casual small talk, shorter first responses (2-3 sentences) leave room for back-and-forth to develop naturally."

\* the trigger kinds whose tips pass rate limit, spacing and the distress pre-filter
PassingKinds == {"PII", "CONTROVERSIAL", "CRISIS"}

\* history.filter(h => h.coachTip).length
tipCountOf(h) == Cardinality({n \in 1..Len(h) : h[n].coachTip # NoTip})

\* /\b(...)\b/i of "has answer content" and of "stuck"
hasAnswerContent_test(text) ==
    BoundedAny(toLowerCase(text),
               << "i", "i'm", "i've", "my", "me", "mine", "i'd", "i'll", "yeah", "yes", "no", "nope",
                  "definitely", "absolutely", "sure", "totally" >>)
stuck_test(text) ==
    BoundedAny(toLowerCase(text),
               << "i don't know", "idk", "not sure", "no clue", "can't think", "i'm stuck",
                  "don't know what" >>)

\* the tiers below the safety tips, in the order of the source; each is NoTip when it passes
tier2Tip(userText, h, isGreetingOnly, hasQuestion, wordCount) ==
    LET selfIntroTip == IF Len(h) >= 1 /\ Len(h) <= 3 THEN checkSelfIntroduction(userText, h) ELSE NoTip
        lastJordan == h[Len(h)]
        isPurelyQuestion == hasQuestion /\ wordCount < 6 /\ ~hasAnswerContent_test(userText)
        notAnsweringTip ==
            IF Len(h) >= 2 /\ lastJordan.role = "assistant" /\ hasQuestionMark(lastJordan.content)
            THEN (IF isGreetingOnly THEN AnswerChanceTip
                  ELSE IF isPurelyQuestion THEN AnswerFirstTip ELSE NoTip)
            ELSE NoTip
        greetingTip ==
            IF isGreetingOnly /\ Len(h) > 0
            THEN (IF hasQuestionMark(lastIfJordan(h)) THEN GreetingAskedTip ELSE GreetingOnlyTip)
            ELSE NoTip
        repeatedTip == IF hasQuestion /\ Len(h) >= 3 THEN checkRepeatedQuestion(userText, h) ELSE NoTip
    IN  IF selfIntroTip # NoTip THEN selfIntroTip
        ELSE IF notAnsweringTip # NoTip THEN notAnsweringTip
        ELSE IF greetingTip # NoTip THEN greetingTip
        ELSE repeatedTip

tier3Tip(userText, h, jordanEnded, isGreetingOnly, hasQuestion) ==
    LET userMessages == Append(withRole(h, "user"), Turn("user", userText, NoTip))
        lastThreeUserMsgs == sliceLast(userMessages, 3)
        listeningTip == IF Len(h) >= 2 /\ hasQuestion THEN checkActiveListening(userText, h) ELSE NoTip
        shareTip == IF Len(h) >= 2 THEN checkBuildOnShare(userText, h) ELSE NoTip
        deflectionTip == IF Len(h) >= 2 THEN checkDeflection(userText, h) ELSE NoTip
        exitTip == IF Len(h) >= 3 THEN checkExitCues(userText, h, jordanEnded) ELSE NoTip
        stuckTip ==
            IF stuck_test(userText)
            THEN (IF hasQuestionMark(lastIfJordan(h)) THEN StuckAskedTip ELSE StuckTip)
            ELSE NoTip
        lastThreeQuestions ==
            {n \in 1..Len(lastThreeUserMsgs) : hasQuestionMark(lastThreeUserMsgs[n].content)}
        hasSharedRecently ==
            \E n \in 1..Len(lastThreeUserMsgs) : wordCountOf(lastThreeUserMsgs[n].content) > 15
        interviewTip ==
            IF Len(userMessages) >= 3 /\ Cardinality(lastThreeQuestions) >= 3 /\ ~hasSharedRecently
            THEN InterviewTip ELSE NoTip
        recentDistress ==
            \E n \in 1..Len(lastThreeUserMsgs) : detectDistressLevel(lastThreeUserMsgs[n].content) > 0
        noneAsksBack ==
            \A n \in 1..Len(lastThreeUserMsgs) :
                LET msg == lastThreeUserMsgs[n].content
                    msgIsGreeting == greetingOnlyPattern_test(msg) /\ wordCountOf(msg) < 3
                IN  ~msgIsGreeting /\ ~hasQuestionMark(msg)
        reciprocityTip ==
            IF ~jordanEnded /\ Len(h) >= 4 /\ ~isGreetingOnly /\ ~recentDistress /\ noneAsksBack
            THEN ReciprocityTip ELSE NoTip
    IN  IF listeningTip # NoTip THEN listeningTip
        ELSE IF shareTip # NoTip THEN shareTip
        ELSE IF deflectionTip # NoTip THEN deflectionTip
        ELSE IF exitTip # NoTip THEN exitTip
        ELSE IF stuckTip # NoTip THEN stuckTip
        ELSE IF interviewTip # NoTip THEN interviewTip
        ELSE reciprocityTip

tier4Tip(userText, h, isGreetingOnly, hasQuestion, wordCount) ==
    LET userMsgs == withRole(h, "user")
        userHasAskedQuestion ==
            hasQuestion \/ \E n \in 1..Len(userMsgs) : hasQuestionMark(userMsgs[n].content)
    IN  IF Len(h) = 3 /\ ~userHasAskedQuestion /\ ~hasQuestion THEN AskBackTip
        ELSE IF Len(h) = 5 THEN RhythmTip
        ELSE IF Len(h) = 8 THEN WrapAroundTip
        ELSE IF wordCount < 3 /\ ~isGreetingOnly /\ Len(h) > 2 THEN MomentumTip
        ELSE IF wordCount > 60 /\ ~hasQuestion /\ Len(h) > 1 THEN InviteBackTip
        ELSE IF Len(h) = 1 /\ wordCount > 50 THEN OvershareTip
        ELSE NoTip

\* a variant without the rate limit
generateCoachTip_noRateLimit(context) ==
    LET userText == context.userText
        h == context.history
        triggerKind == context.triggerKind
        passing == triggerKind \in PassingKinds
        recentTipCount == tipCountOf(sliceLast(h, 3))
        currentDistress == detectDistressLevel(userText)
        wordCount == wordCountOf(userText)
        hasQuestion == hasQuestionMark(userText)
        isGreetingOnly == greetingOnlyPattern_test(userText) /\ wordCount < 3
        second == tier2Tip(userText, h, isGreetingOnly, hasQuestion, wordCount)
        third == tier3Tip(userText, h, context.jordanEndedConversation, isGreetingOnly, hasQuestion)
    IN  IF context.cooldown THEN NoTip
        ELSE IF recentTipCount > 0 /\ ~passing THEN NoTip
        ELSE IF (currentDistress > 0 \/ hasDescendingTrajectory(h, userText)) /\ ~passing THEN NoTip
        ELSE IF triggerKind = "PII" THEN PrivateInfoTip
        ELSE IF triggerKind = "CONTROVERSIAL" THEN HeavyTopicTip
        ELSE IF triggerKind = "CRISIS" THEN CrisisAdjacentTip
        ELSE IF second # NoTip THEN second
        ELSE IF third # NoTip THEN third
        ELSE tier4Tip(userText, h, isGreetingOnly, hasQuestion, wordCount)

\* generateCoachTip(context); NoTip models undefined
generateCoachTip(context) ==
    LET userText == context.userText
        h == context.history
        triggerKind == context.triggerKind
        passing == triggerKind \in PassingKinds
        recentTipCount == tipCountOf(sliceLast(h, 3))
        currentDistress == detectDistressLevel(userText)
        wordCount == wordCountOf(userText)
        hasQuestion == hasQuestionMark(userText)
        isGreetingOnly == greetingOnlyPattern_test(userText) /\ wordCount < 3
        second == tier2Tip(userText, h, isGreetingOnly, hasQuestion, wordCount)
        third == tier3Tip(userText, h, context.jordanEndedConversation, isGreetingOnly, hasQuestion)
    IN  IF context.cooldown THEN NoTip
        ELSE IF tipCountOf(h) >= 4 /\ ~passing THEN NoTip
        ELSE IF recentTipCount > 0 /\ ~passing THEN NoTip
        ELSE IF (currentDistress > 0 \/ hasDescendingTrajectory(h, userText)) /\ ~passing THEN NoTip
        ELSE IF triggerKind = "PII" THEN PrivateInfoTip
        ELSE IF triggerKind = "CONTROVERSIAL" THEN HeavyTopicTip
        ELSE IF triggerKind = "CRISIS" THEN CrisisAdjacentTip
        ELSE IF second # NoTip THEN second
        ELSE IF third # NoTip THEN third
        ELSE tier4Tip(userText, h, isGreetingOnly, hasQuestion, wordCount)

-----------------------------------------------------------------------------
(* Texts handed to the pure functions: phrases joined by single spaces *)

Phrases == { "I want to KILL MYSELF", "kms", "hopeless", "No Point", "why I stay",
             "hello there", "email bob@example.com", "politics" }

RECURSIVE JoinedTexts(_)
JoinedTexts(n) ==
    IF n <= 1 THEN Phrases
    ELSE JoinedTexts(n - 1) \cup {t \o " " \o p : t \in JoinedTexts(n - 1), p \in Phrases}

Texts == {""} \cup JoinedTexts(MaxPhrases)

-----------------------------------------------------------------------------
(* analyzeDistress as a function of its arguments *)

InitDistress ==
    /\ AppInit
    /\ fnPc = "ready"
    /\ fnArg \in [text : Texts, tier2Count : 0..MaxTier2Count]
    /\ fnRes = Idle

CallAnalyzeDistress ==
    /\ fnPc = "ready"
    /\ fnRes' = analyzeDistress(fnArg.text, fnArg.tier2Count)
    /\ fnPc' = "done"
    /\ UNCHANGED << fnArg, appVars >>

NextDistress == CallAnalyzeDistress

SpecDistress == InitDistress /\ [][NextDistress]_vars

-----------------------------------------------------------------------------
(* prioritize as a function of its argument *)

TriggerOf(kind) == Trigger(kind, toLowerCase(kind))

RECURSIVE TriggerLists(_)
TriggerLists(n) ==
    IF n = 0 THEN { << >> }
    ELSE TriggerLists(n - 1) \cup
         {Append(l, TriggerOf(k)) : l \in {x \in TriggerLists(n - 1) : Len(x) = n - 1}, k \in Severity}

InitPrioritize ==
    /\ AppInit
    /\ fnPc = "ready"
    /\ fnArg \in [triggers : TriggerLists(MaxTriggers)]
    /\ fnRes = Idle

CallPrioritize ==
    /\ fnPc = "ready"
    /\ fnRes' = prioritize(fnArg.triggers)
    /\ fnPc' = "done"
    /\ UNCHANGED << fnArg, appVars >>

NextPrioritize == CallPrioritize

SpecPrioritize == InitPrioritize /\ [][NextPrioritize]_vars

-----------------------------------------------------------------------------
(* supabase/functions/analyze-crisis-context: the crisis-context classifier *)

Severities == {"crisis", "coaching", "safe"}

VerdictBody(severity, reason) ==
    JsonObj(("severity" :> JsonStr(severity)) @@ ("reason" :> JsonStr(reason)))

Response(status, body) == [status |-> status, body |-> body]

\* the answer of the branch for a non-success status of the gateway
LlmFailedResponse == Response(200, VerdictBody("crisis", "LLM analysis failed, defaulting to safe"))
\* a variant that fails open on a non-success status
LlmFailedResponse_failOpen == Response(200, VerdictBody("safe", "LLM analysis failed, defaulting to safe"))

\* the answer of the catch block
AnalysisErrorResponse == Response(500, VerdictBody("crisis", "Analysis error, defaulting to safe"))

\* the value of analysis when JSON.parse throws
ParseFailedVerdict == VerdictBody("crisis", "Failed to parse LLM response")

\* reply.match(/~~~json\s*(\{[\s\S]*?\})\s*~~~/): the places (start of group, end of group)
fencedJsonMatches(reply) ==
    { << q, r >> \in (1..Len(reply)) \X (1..Len(reply)) :
        /\ CharAt(reply, q) = "{" /\ CharAt(reply, r) = "}" /\ q < r
        /\ \E p \in 1..q : StartsAt(reply, p, Fence \o "json") /\ skipSpace(reply, p + 7) = q
        /\ StartsAt(reply, skipSpace(reply, r + 1), Fence) }

\* the first capture group of the match, "" standing for no match
fencedJson(reply) ==
    LET ms == fencedJsonMatches(reply)
    IN  IF ms = {} THEN ""
        ELSE LET q == Min({m[1] : m \in ms})
                 r == Min({m[2] : m \in {x \in ms : x[1] = q}})
             IN  SubSeq(reply, q, r)

\* reply.match(/(\{[\s\S]*?\})/): from the first "{" to the first "}" after it
firstBraces(reply) ==
    LET opens == IndexesOf(reply, "{", 1)
    IN  IF opens = {} THEN ""
        ELSE LET closes == IndexesOf(reply, "}", Min(opens) + 1)
             IN  IF closes = {} THEN "" ELSE SubSeq(reply, Min(opens), Min(closes))

\* jsonMatch ? jsonMatch[1] : reply
jsonStrOf(reply) ==
    IF fencedJson(reply) # "" THEN fencedJson(reply)
    ELSE IF firstBraces(reply) # "" THEN firstBraces(reply)
    ELSE reply

\* the try block around JSON.parse
analysisOf(reply) ==
    LET parsed == JSONparse(jsonStrOf(reply))
    IN  IF parsed.ok THEN parsed.val ELSE ParseFailedVerdict

\* a variant whose non-success branch fails open
analyzeCrisisContextServe_failOpen(env) ==
    IF env.request # "ok" THEN AnalysisErrorResponse
    ELSE IF ~env.apiKey THEN AnalysisErrorResponse
    ELSE IF env.gateway \in {"network_error", "timeout"} THEN AnalysisErrorResponse
    ELSE IF env.gateway = "http_error" THEN LlmFailedResponse_failOpen
    ELSE Response(200, analysisOf(env.content))

\* the response of the function, given whether the request body can be read, whether
\* the API key is configured, what the gateway call did (the fetch is given 10 s),
\* and the content of the gateway's first choice ("" when it has none)
analyzeCrisisContextServe(env) ==
    IF env.request # "ok" THEN AnalysisErrorResponse
    ELSE IF ~env.apiKey THEN AnalysisErrorResponse
    ELSE IF env.gateway \in {"network_error", "timeout"} THEN AnalysisErrorResponse
    ELSE IF env.gateway = "http_error" THEN LlmFailedResponse
    ELSE Response(200, analysisOf(env.content))

\* content of the classifier model's answer
ClassifierContents == { "{\"severity\": \"safe\", \"reason\": \"book talk\"}",
                        "~~~json\n{\"severity\": \"coaching\", \"reason\": \"borderline\"}\n~~~",
                        "Verdict: {\"severity\": \"crisis\", \"reason\": \"ideation\"} as asked",
                        "{\"severity\": \"safe\", \"meta\": {\"tier\": \"2\"}}",
                        "{\"verdict\": \"safe\"}",
                        "{\"severity\": \"high\", \"reason\": \"tier 1\"}",
                        "\"safe\"",
                        "I cannot decide.",
                        "" }

ClassifierEnvs ==
    [request : {"ok", "malformed"}, apiKey : BOOLEAN, gateway : GatewayOutcomes,
     content : ClassifierContents]

InitClassifier ==
    /\ AppInit
    /\ fnPc = "ready"
    /\ fnArg \in ClassifierEnvs
    /\ fnRes = Idle

CallAnalyzeCrisisContext ==
    /\ fnPc = "ready"
    /\ fnRes' = analyzeCrisisContextServe(fnArg)
    /\ fnPc' = "done"
    /\ UNCHANGED << fnArg, appVars >>

NextClassifier == CallAnalyzeCrisisContext

SpecClassifier == InitClassifier /\ [][NextClassifier]_vars

-----------------------------------------------------------------------------
(* generateCoachTip as a function of its context *)

\* what the user types
TipUserTexts == { "I've been stressed out about finals",
                  "I mostly read sci-fi novels these days",
                  "What do you like to read?",
                  "hey",
                  "call me at 555-123-4567" }

\* what Jordan answers
TipJordanTexts == { "I'm Jordan. I work at the library.",
                    "Nice! What do you like to read?",
                    "Anyway, I should get going. Take care!" }

\* one exchange: a user turn, with or without a tip attached, and Jordan's reply
TipExchanges ==
    { << Turn("user", u, tip), Turn("assistant", a, NoTip) >> :
        u \in TipUserTexts, tip \in {NoTip, ReciprocityTip}, a \in TipJordanTexts }

\* the histories of n exchanges or fewer after the opening line
RECURSIVE TipHistories(_)
TipHistories(n) ==
    IF n = 0 THEN { << Turn("assistant", openingLine("bookstore"), NoTip) >> }
    ELSE TipHistories(n - 1) \cup
         {h \o x : h \in {g \in TipHistories(n - 1) : Len(g) = 2 * n - 1}, x \in TipExchanges}

\* exchanges in a history handed to generateCoachTip
MaxTipExchanges == 2

triggerKindOf == [text \in TipUserTexts |-> prioritize(detectTriggers(text)).kind]

TipContexts(n) ==
    { [userText |-> u, history |-> h, triggerKind |-> triggerKindOf[u], cooldown |-> c,
       jordanEndedConversation |-> e] :
        u \in TipUserTexts, h \in TipHistories(n), c \in BOOLEAN, e \in BOOLEAN }

InitTip ==
    /\ AppInit
    /\ fnPc = "ready"
    /\ fnArg \in TipContexts(MaxTipExchanges)
    /\ fnRes = Idle

CallGenerateCoachTip ==
    /\ fnPc = "ready"
    /\ fnRes' = [tip |-> generateCoachTip(fnArg)]
    /\ fnPc' = "done"
    /\ UNCHANGED << fnArg, appVars >>

NextTip == CallGenerateCoachTip

SpecTip == InitTip /\ [][NextTip]_vars

-----------------------------------------------------------------------------
(* generateCoachTip late in a conversation: longer histories over fewer texts *)

\* exchanges in a long history handed to generateCoachTip
MaxLongExchanges == 5

LongUserTexts == { "I've been stressed out about finals",
                   "I mostly read sci-fi novels these days" }

LongExchanges ==
    { << Turn("user", u, tip), Turn("assistant", "Nice! What do you like to read?", NoTip) >> :
        u \in LongUserTexts, tip \in {NoTip, ReciprocityTip} }

\* the histories of n exchanges or fewer after the opening line
RECURSIVE LongHistories(_)
LongHistories(n) ==
    IF n = 0 THEN { << Turn("assistant", openingLine("bookstore"), NoTip) >> }
    ELSE LongHistories(n - 1) \cup
         {h \o x : h \in {g \in LongHistories(n - 1) : Len(g) = 2 * n - 1}, x \in LongExchanges}

LongContexts(n) ==
    { [userText |-> u, history |-> h, triggerKind |-> triggerKindOf[u], cooldown |-> c,
       jordanEndedConversation |-> FALSE] :
        u \in TipUserTexts, h \in LongHistories(n), c \in BOOLEAN }

InitTipLong ==
    /\ AppInit
    /\ fnPc = "ready"
    /\ fnArg \in LongContexts(MaxLongExchanges)
    /\ fnRes = Idle

SpecTipLong == InitTipLong /\ [][NextTip]_vars

-----------------------------------------------------------------------------
(* C1: when the crisis-context classifier call fails (network error, expiry  *)
(* of the 10 s timeout, missing API key, or a non-success status from the    *)
(* model gateway), the verdict delivered is always severity "crisis", never  *)
(* "safe" or "coaching".                                                     *)

ClassifierCallFails(env) ==
    ~env.apiKey \/ env.gateway \in {"network_error", "timeout", "http_error"}

C1_ClassifierFailureIsCrisis ==
    (fnPc = "done" /\ ClassifierCallFails(fnArg)) =>
        Member(fnRes.body, "severity") = JsonStr("crisis")

\* the gateway answered with a non-success status while the model would have said "safe"
C1_Witness ==
    /\ fnPc = "done"
    /\ fnArg.request = "ok" /\ fnArg.apiKey /\ fnArg.gateway = "http_error"
    /\ analysisOf(fnArg.content) = VerdictBody("safe", "book talk")
    /\ Member(fnRes.body, "severity") = JsonStr("crisis")

-----------------------------------------------------------------------------
(* C2: when the Response Moderator call fails (the moderation function       *)
(* returns an error, or calling it throws), moderateJordanResponse yields    *)
(* safe = false, the assistant turn shows a fixed fallback line instead of   *)
(* the candidate, and a moderation log entry is created for the blocked      *)
(* reply. Stated where moderateJordanResponse has returned in a session that *)
(* has a stored row to log against.                                          *)

FallbackLines == {BlockedLine, TechnicalLine}

LoggedAsBlocked(dbId, candidate) ==
    \E row \in moderationLogs : row.session_id = dbId /\ row.original_response = candidate

C2_ModeratorFailureLogged ==
    (sendPc = "commit" /\ sendCtx.moderation.error /\ sendCtx.sessionDbId # 0) =>
        /\ sendCtx.reply \in FallbackLines
        /\ sendCtx.reply # sendCtx.candidate
        /\ LoggedAsBlocked(sendCtx.sessionDbId, sendCtx.candidate)

-----------------------------------------------------------------------------
(* C3: when a user message results in a crisis verdict, the user turn is     *)
(* recorded, no assistant turn is appended for that message, the session is  *)
(* marked ended and crisis_detected is persisted as true.                    *)

\* the step that records a user turn whose prioritised trigger is CRISIS
CrisisTurnRecorded ==
    /\ Len(history') > Len(history)
    /\ history'[Len(history) + 1].role = "user"
    /\ prioritize(detectTriggers(history'[Len(history) + 1].content)).kind = "CRISIS"

C3_CrisisEndsSession ==
    [][ CrisisTurnRecorded =>
            /\ Len(history') = Len(history) + 1
            /\ ended'
            /\ \A row \in sessionsTable' : row.id = sessionDbId => row.crisis_detected ]_vars

-----------------------------------------------------------------------------
(* C6: a first tier-2-only message in a session does not escalate by itself: *)
(* its severity is "none", the turn orchestrator does not take the crisis    *)
(* path, and the normal reply pipeline produces the assistant turn.          *)

\* the step that records a user turn that is the session's first tier-2-only message
FirstTier2OnlyTurnRecorded ==
    /\ Len(history') > Len(history)
    /\ history'[Len(history) + 1].role = "user"
    /\ countTier2SignalsInHistory(history) = 0
    /\ LET result == analyzeDistress(history'[Len(history) + 1].content, 0)
       IN  result.severity = "none" /\ result.foundTier2

C6_FirstTier2DoesNotEscalate ==
    [][ FirstTier2OnlyTurnRecorded =>
            /\ history'[Len(history) + 1].coachTip # CrisisTip
            /\ Len(history') = Len(history) + 2
            /\ ~StartsAt(history'[Len(history) + 2].content, 1, CrisisReplyHead)
            /\ sendPc = "commit" ]_vars

-----------------------------------------------------------------------------
(* C7: every assistant turn appended to history by the reply pipeline is     *)
(* either the candidate reply, unchanged, for which moderation returned      *)
(* safe = true, or a fixed fallback line; a candidate for which moderation   *)
(* returned safe = false, or no safe field, is never displayed.              *)

ModerationReturnedSafe(invoked) ==
    ~invoked.error /\ Member(invoked.data, "safe") = JsonBool(TRUE)

\* the commit of the reply pipeline
ReplyCommitted == sendPc = "commit" /\ Len(history') = Len(history) + 2

-----------------------------------------------------------------------------
(* C10: safety tips are always allowed: for a user message whose prioritised *)
(* trigger is PII, CONTROVERSIAL or INSULT, a safety tip is attached to the  *)
(* user turn even when the cooldown flag is set.                             *)

SafetyKinds == {"PII", "CONTROVERSIAL", "INSULT"}
FlowTips == {StallTip, BriefTip, LongTip}

C10_SafetyTipAlwaysAttached ==
    \A n \in UserTurns(history) :
        prioritize(detectTriggers(history[n].content)).kind \in SafetyKinds =>
            history[n].coachTip \notin ({NoTip} \cup FlowTips)

-----------------------------------------------------------------------------
(* C4: for every text and every prior accumulated tier-2 count n >= 0, if the   *)
(* lower-cased text contains any tier-1 keyword, analyzeDistress(text, n)       *)
(* returns severity "high", also when the text contains tier-2 keywords too.    *)

ContainsTier1(text) == IncludesAny(toLowerCase(text), TIER_1_CRISIS_KEYWORDS)
ContainsTier2(text) == IncludesAny(toLowerCase(text), TIER_2_DISTRESS_KEYWORDS)

C4_Tier1AlwaysHigh ==
    (fnPc = "done" /\ ContainsTier1(fnArg.text)) => fnRes.severity = "high"

\* a tier-1 text that also holds a tier-2 keyword, with a count already past the threshold
C4_Witness ==
    /\ fnPc = "done"
    /\ ContainsTier1(fnArg.text) /\ ContainsTier2(fnArg.text)
    /\ fnArg.tier2Count >= 2
    /\ fnRes.severity = "high"

-----------------------------------------------------------------------------
(* C5: with an accumulated tier-2 count of 0, a message containing exactly   *)
(* one tier-2 keyword and no tier-1 keyword yields severity "none" and makes *)
(* the count 1; a second such message yields severity "low".                 *)

\* the keywords of a list that the text contains, letter case aside
KeywordsIn(text, keywords) ==
    {n \in 1..Len(keywords) : Includes(toLowerCase(text), toLowerCase(keywords[n]))}

OneTier2KeywordOnly(text) ==
    /\ Cardinality(KeywordsIn(text, TIER_2_DISTRESS_KEYWORDS)) = 1
    /\ KeywordsIn(text, TIER_1_CRISIS_KEYWORDS) = {}

C5_Tier2Accumulates ==
    (fnPc = "done" /\ OneTier2KeywordOnly(fnArg.text)) =>
        /\ fnArg.tier2Count = 0 =>
              /\ fnRes.severity = "none"
              /\ fnRes.foundTier2
              /\ countTier2SignalsInHistory(<< Turn("user", fnArg.text, NoTip) >>) = 1
        /\ fnArg.tier2Count = 1 => fnRes.severity = "low"

-----------------------------------------------------------------------------
(* C9: if any of the last 3 user messages, the current one included,         *)
(* contains a distress signal, generateCoachTip returns no non-safety tip.   *)

SafetyTips == {PrivateInfoTip, HeavyTopicTip, CrisisAdjacentTip}

\* the last three user messages, the current one included
LastThreeUserTexts(context) ==
    LET msgs == sliceLast(Append(withRole(context.history, "user"),
                                 Turn("user", context.userText, NoTip)), 3)
    IN  {msgs[n].content : n \in 1..Len(msgs)}

C9_DistressSuppressesSkillTips ==
    (fnPc = "done" /\ \E msg \in LastThreeUserTexts(fnArg) : detectDistressLevel(msg) > 0) =>
        fnRes.tip \in {NoTip} \cup SafetyTips

-----------------------------------------------------------------------------
(* C8: prioritize returns, for any non-empty list of triggers in any order, the *)
(* trigger whose kind comes first in CRISIS > PII > CONTROVERSIAL > INSULT >    *)
(* COACHING > NONE, so one severity is active per message; an empty list        *)
(* resolves to NONE.                                                            *)

RankOf(kind) ==
    CASE kind = "CRISIS" -> 1 [] kind = "PII" -> 2 [] kind = "CONTROVERSIAL" -> 3
      [] kind = "INSULT" -> 4 [] kind = "COACHING" -> 5 [] kind = "NONE" -> 6

KindsOf(triggers) == {triggers[n].kind : n \in 1..Len(triggers)}

C8_PrioritizeTotalOrder ==
    fnPc = "done" =>
        IF Len(fnArg.triggers) = 0
        THEN fnRes.kind = "NONE"
        ELSE /\ fnRes.kind \in KindsOf(fnArg.triggers)
             /\ \A k \in KindsOf(fnArg.triggers) : RankOf(fnRes.kind) <= RankOf(k)

\* CONTROVERSIAL listed before PII resolves to PII
C8_Witness ==
    /\ fnPc = "done"
    /\ fnArg.triggers = << TriggerOf("CONTROVERSIAL"), TriggerOf("PII") >>
    /\ fnRes.kind = "PII"

-----------------------------------------------------------------------------
(* C11: a classifier response that is unparseable or malformed, valid JSON   *)
(* whose severity field is missing or is not one of crisis / coaching / safe *)
(* included, is treated like a call failure: the resulting verdict is        *)
(* "crisis". Stated on the response of analyze-crisis-context when the       *)
(* gateway call itself succeeded.                                            *)

\* the model's answer does not carry a verdict of the schema
MalformedVerdict(content) ==
    LET parsed == JSONparse(jsonStrOf(content))
    IN  \/ ~parsed.ok
        \/ Member(parsed.val, "severity") \notin {JsonStr(s) : s \in Severities}

ClassifierAnswered(env) ==
    env.request = "ok" /\ env.apiKey /\ env.gateway = "ok"

C11_MalformedVerdictIsCrisis ==
    (fnPc = "done" /\ ClassifierAnswered(fnArg) /\ MalformedVerdict(fnArg.content)) =>
        Member(fnRes.body, "severity") = JsonStr("crisis")

-----------------------------------------------------------------------------
(* C12: if the user resets while a turn is in flight, the result of the      *)
(* in-flight reply / moderation call is discarded on arrival: the completion *)
(* of the old turn does not modify history, the cooldown flag or the busy    *)
(* flag after the reset.                                                     *)

\* a send is still running although reset has cleared the session it was made in
\* (send needs a non-empty history, which only a started session has)
StaleTurnInFlight == sendPc # "idle" /\ sessionId = 0

\* the step on which the running send reaches its end
TurnCompletes == sendPc # "idle" /\ sendPc' = "idle"

C12_StaleTurnDiscarded ==
    [][(StaleTurnInFlight /\ TurnCompletes) =>
          (history' = history /\ cooldown' = cooldown /\ busy' = busy)]_vars

-----------------------------------------------------------------------------
(* C13: at most one user turn is in flight per session. While a send is      *)
(* being processed (busy) a further send is rejected without changing state, *)
(* so the running turn keeps its message until it completes, and history     *)
(* only ever grows by the user turn of one message followed by its assistant *)
(* turn: the turns of two messages are never interleaved.                    *)

\* the busy flag is set exactly while a send is between its guard and its end
BusyWhileInFlight == busy <=> (sendPc # "idle")

\* the step adds a user turn to history
AddsUserTurn == Cardinality(UserTurns(history')) > Cardinality(UserTurns(history))

\* history grew by one user turn directly followed by one assistant turn
AppendsOneExchange ==
    /\ Len(history') = Len(history) + 2
    /\ SubSeq(history', 1, Len(history)) = history
    /\ history'[Len(history) + 1].role = "user"
    /\ history'[Len(history) + 2].role = "assistant"

C13_OneTurnAtATime ==
    /\ []BusyWhileInFlight
    /\ [][/\ (busy /\ sendPc' # "idle") => sendCtx'.userText = sendCtx.userText
          /\ AddsUserTurn => AppendsOneExchange
          /\ (busy /\ AddsUserTurn) =>
                /\ sendPc' = "idle"
                /\ history'[Len(history) + 1].content = sendCtx.userText]_vars

\* a second message could be sent (the first exchange is complete, the session is
\* not ended) but for the turn that is being moderated
C13_Witness ==
    /\ busy /\ sendPc = "moderate" /\ ~ended
    /\ Cardinality(UserTurns(history)) = 1
    /\ \E text \in UserTexts : CanSend_ignoreBusy(text) /\ ~CanSend(text)

-----------------------------------------------------------------------------
(* C14: user input is accepted only while the session is Active. Once the    *)
(* session has been ended, no user or assistant turn is appended to history  *)
(* until a reset starts a new session, however the ending action interleaves *)
(* with a send.                                                              *)

C14_NoTurnAfterEnd ==
    [][(ended /\ ended') => Len(history') <= Len(history)]_vars

-----------------------------------------------------------------------------
(* C15: cooldown protocol. After a user turn on which a tip was generated    *)
(* the cooldown flag is set; it is set for exactly the next user turn, so    *)
(* after a turn that was taken with the flag set the flag is clear; after a  *)
(* turn on which no tip was generated the flag is clear.                     *)

\* the tip attached to the user turn that the step appends
AppendedTip == history'[Len(history) + 1].coachTip

C15_CooldownProtocol ==
    [][(AddsUserTurn /\ AppendsOneExchange) =>
          /\ (AppendedTip # NoTip) => cooldown'
          /\ (AppendedTip = NoTip) => ~cooldown'
          /\ cooldown => ~cooldown']_vars

\* the part of the protocol that does not depend on the turn before: the flag
\* after a turn tells whether that turn carries a tip
C15_FlagFollowsTip ==
    [][(AddsUserTurn /\ AppendsOneExchange) => (cooldown' <=> AppendedTip # NoTip)]_vars

-----------------------------------------------------------------------------
(* C16: rate limit. Once 4 or more tips have been shown in a session,        *)
(* generateCoachTip produces no further non-safety tip: it returns a tip     *)
(* only for a safety trigger, and that tip is a safety tip.                  *)

-----------------------------------------------------------------------------
(* C17: spacing rule. generateCoachTip never produces a non-safety tip when  *)
(* a tip was attached to either of the previous 2 user turns.                *)

\* the previous n user turns of a history
PreviousUserTurns(h, n) == sliceLast(withRole(h, "user"), n)

TipInPreviousUserTurns(h, n) ==
    \E k \in 1..Len(PreviousUserTurns(h, n)) : PreviousUserTurns(h, n)[k].coachTip # NoTip

C17_SpacingRule ==
    (fnPc = "done" /\ TipInPreviousUserTurns(fnArg.history, 2)) =>
        fnRes.tip \in {NoTip} \cup SafetyTips

\* what the code's window of 3 turns covers: the previous user turn only
C17_SpacingOneTurn ==
    (fnPc = "done" /\ TipInPreviousUserTurns(fnArg.history, 1)) =>
        fnRes.tip \in {NoTip} \cup SafetyTips

-----------------------------------------------------------------------------
(* C18: whenever the current user message contains a tier-1 or tier-2        *)
(* distress keyword, or at least 2 of the last 5 user messages (the current  *)
(* one included) contain a distress signal, generateCoachTip suppresses      *)
(* every non-safety tip, whatever the cooldown, the tip count and the        *)
(* spacing.                                                                  *)

\* the last n user messages, the current one included
LastUserTexts(context, n) ==
    sliceLast(Append(withRole(context.history, "user"), Turn("user", context.userText, NoTip)), n)

DistressHits(context, n) ==
    Cardinality({k \in 1..Len(LastUserTexts(context, n)) :
                    detectDistressLevel(LastUserTexts(context, n)[k].content) > 0})

C18_DistressSuppressesAll ==
    (/\ fnPc = "done"
     /\ \/ ContainsTier1(fnArg.userText)
        \/ ContainsTier2(fnArg.userText)
        \/ DistressHits(fnArg, 5) >= 2) =>
        fnRes.tip \in {NoTip} \cup SafetyTips

-----------------------------------------------------------------------------
(* C19: when reply generation fails, the assistant turn shown for that       *)
(* message is the fixed "generator unavailable" line, the conversation goes  *)
(* on (the session is not ended by it), and the outcome is not a blocked     *)
(* reply: nothing is logged as blocked for it.                               *)

\* the turn of a send whose adapter call threw is being committed
FailedGenerationCommitted ==
    /\ sendPc = "commit" /\ sendPc' = "idle"
    /\ sendCtx.candidate = GeneratorUnavailableLine

C19_GeneratorFallbackShown ==
    [][FailedGenerationCommitted =>
          /\ AppendsOneExchange
          /\ history'[Len(history) + 2].content = GeneratorUnavailableLine
          /\ ended' = ended
          /\ \A row \in moderationLogs' : row.original_response # GeneratorUnavailableLine]_vars

-----------------------------------------------------------------------------
(* C20: a failing store write (session creation, transcript update, mark     *)
(* ended, moderation-log insert) never interrupts the conversation and never *)
(* changes the triage outcome. Stated step by step: whatever the store did,  *)
(* the conversation starts with the opening line; the step after the log     *)
(* insert is the commit, with the tip and the reply untouched; and the       *)
(* commit appends the tip decided at the send and the text decided by the    *)
(* adapter and the moderator alone, with the flags the handler sets.         *)

\* the text the reply pipeline shows, from the candidate and the moderator's answer
ShownFor(candidate, invoked) ==
    IF invoked.error \/ invoked.data.t \in {"null", "undefined"} THEN TechnicalLine
    ELSE IF Truthy(Member(invoked.data, "safe")) THEN candidate
    ELSE BlockedLine

\* createSession has returned, with a row id or with null
SessionCreationReturns == \E st \in starts : starts' = starts \ {st}

\* the insert into moderation_logs has returned
LogInsertReturns == sendPc = "log" /\ sendPc' # "log"

\* the reply pipeline has reached its end
PipelineCommits == sendPc = "commit" /\ sendPc' # "commit"

C20_StoreFailureIsHarmless ==
    [][/\ SessionCreationReturns =>
             /\ history' = << Turn("assistant", openingLine(setup.scene), NoTip) >>
             /\ UNCHANGED << cooldown, ended, busy >>
       /\ LogInsertReturns =>
             /\ sendPc' = "commit"
             /\ sendCtx' = sendCtx
             /\ UNCHANGED << history, cooldown, ended, busy >>
       /\ PipelineCommits =>
             /\ history' = history \o
                   << Turn("user", sendCtx.userText, sendCtx.coachTip),
                      Turn("assistant", ShownFor(sendCtx.candidate, sendCtx.moderation), NoTip) >>
             /\ cooldown' = (sendCtx.coachTip # NoTip)
             /\ busy' = FALSE
             /\ ended' = ended
       /\ (~ended /\ ended') => UNCHANGED << history, cooldown, busy, sendPc, sendCtx >>]_vars

\* a blocked reply of a stored session is about to be committed although the store
\* refused the log insert and the transcript update before it
C20_Witness ==
    /\ sendPc = "commit"
    /\ sendCtx.sessionDbId # 0
    /\ sendCtx.reply = BlockedLine
    /\ ~LoggedAsBlocked(sendCtx.sessionDbId, sendCtx.candidate)
    /\ \E row \in sessionsTable : row.id = sessionDbId /\ row.total_turns < Len(history)

-----------------------------------------------------------------------------
(* C21: a restart never resumes the old session. After reset the history is  *)
(* empty, ended and cooldown are false and the session id, database id and   *)
(* token are cleared; the next start creates a new id and token; and no      *)
(* store write issued after the reset carries the old session's id or token. *)

\* the step is a reset: the setup dialog comes back
ResetStep == ~showSetup /\ showSetup'

\* the step starts a conversation: the setup dialog goes away
StartStep == showSetup /\ ~showSetup'

\* the rows of sessions a step inserts or rewrites (these writes land with the step)
SessionRowsWritten == sessionsTable' \ sessionsTable

\* the step issues the insert into moderation_logs
LogInsertIssued == sendPc # "log" /\ sendPc' = "log"

C21_RestartNeverResumes ==
    [][/\ ResetStep =>
            /\ history' = << >> /\ ~ended' /\ ~cooldown'
            /\ sessionId' = 0 /\ sessionDbId' = 0 /\ sessionToken' = 0
       /\ StartStep =>
            /\ sessionId' # 0 /\ sessionToken' # 0
            /\ \A r \in sessionsTable : r.session_id # sessionId' /\ r.session_token # sessionToken'
       /\ \A r \in SessionRowsWritten :
            r.id \in {sessionDbId, sessionDbId'} \cup {st.id : st \in starts}
       /\ LogInsertIssued => sendCtx'.sessionDbId = sessionDbId]_vars

-----------------------------------------------------------------------------
(* C22: every store write issued for a session (the transcript and           *)
(* turn-count update, the mark as ended, the moderation-block log insert) is *)
(* conditioned on the session id together with that session's secret token:  *)
(* a request whose token is missing or does not match modifies no row.       *)

\* the app holds a token, and it is the token of the stored session id
TokenMatches(id) ==
    /\ sessionToken # 0
    /\ \E r \in sessionsTable : r.id = id /\ r.session_token = sessionToken

\* the rows of sessions a step rewrites (the row existed before)
SessionRowsUpdated == {r \in sessionsTable' \ sessionsTable : \E o \in sessionsTable : o.id = r.id}

C22_WritesNeedToken ==
    [][/\ \A r \in SessionRowsUpdated : TokenMatches(r.id)
       /\ \A r \in moderationLogs' \ moderationLogs : TokenMatches(r.session_id)]_vars

-----------------------------------------------------------------------------
(* A conversation followed by restarts: the state handleStartConversation    *)
(* leaves for a stored session whose id lies outside the ids later starts    *)
(* draw, and every handler of App, reset and the next start included.        *)

EarlierSession == MaxSessions + 1

InitRestart ==
    /\ setup = DefaultSetup
    /\ history = << Turn("assistant", openingLine(DefaultSetup.scene), NoTip) >>
    /\ sessionId = EarlierSession /\ sessionDbId = EarlierSession /\ sessionToken = EarlierSession
    /\ sessionsTable = updateSession({SessionRow(EarlierSession, EarlierSession)},
                                     EarlierSession, EarlierSession, history, TRUE)
    /\ cooldown = FALSE /\ ended = FALSE /\ busy = FALSE /\ showSetup = FALSE
    /\ nextSession = 0
    /\ sendPc = "idle" /\ sendCtx = Idle /\ starts = {}
    /\ moderationLogs = {}
    /\ FnIdle

\* what the user types in it: a message with a tier-2 keyword (a crisis to
\* detectTriggers) and one with contact details
RestartTexts == { "i think i'm hopeless about this exam",
                  "call me at 555-123-4567" }

\* what the moderator answers in it: the reply is safe, or it is not
RestartInvocations ==
    {InvokeData(moderateResponseServe([apiKey |-> TRUE, gateway |-> "ok", content |-> c])) :
        c \in {"{\"safe\": true, \"reason\": \"\"}",
               "~~~json\n{\"safe\": false, \"reason\": \"PII request\"}\n~~~"}}

\* the store carries its writes out
RestartStored == {TRUE}

NextRestart ==
    \/ StartConversation(DefaultSetup)
    \/ \E st \in starts : CreateSessionInserted(st)
    \/ \E st \in starts, stored \in RestartStored : CreateSessionDone(st, stored)
    \/ \E st \in starts : CreateSessionFailed(st)
    \/ \E text \in RestartTexts, stored \in RestartStored : SendCrisis(text, stored)
    \/ \E text \in RestartTexts : SendBegin(text)
    \/ \E candidate \in CandidateReplies : ChatReplied(candidate)
    \/ ChatFailed
    \/ \E invoked \in RestartInvocations : ModerationAnswered(invoked)
    \/ \E stored \in RestartStored : ModerationLogged(stored)
    \/ \E stored \in RestartStored : SendCommit(stored)
    \/ \E stored \in RestartStored : EndSession(stored)
    \/ Reset

SpecRestart == InitRestart /\ [][NextRestart]_vars

-----------------------------------------------------------------------------
(* C23: the accumulated tier-2 count of a session is monotonically           *)
(* non-decreasing over any sequence of user messages within the session and  *)
(* returns to 0 only when the session is reset.                              *)

C23_Tier2CountMonotonic ==
    [][countTier2SignalsInHistory(history') < countTier2SignalsInHistory(history) => Reset]_vars

-----------------------------------------------------------------------------
(* C24: the turn sequence is append-only. Every completed send appends       *)
(* exactly two turns, the user turn (carrying its tip, if any) followed by   *)
(* one assistant turn, and leaves all earlier turns unchanged; only reset    *)
(* empties the history.                                                      *)

\* h is an initial part of g
IsPrefix(h, g) == Len(h) <= Len(g) /\ SubSeq(g, 1, Len(h)) = h

\* the step on which a send reaches its end: the commit of a running send, or a
\* crisis message answered at once
SendCompletes == TurnCompletes \/ (sendPc = "idle" /\ AddsUserTurn)

C24_AppendOnly ==
    [][/\ SendCompletes =>
            /\ AppendsOneExchange
            /\ history'[Len(history) + 2].coachTip = NoTip
       /\ history' # history => (IsPrefix(history, history') \/ Reset)]_vars

-----------------------------------------------------------------------------
(* The refined coaching system (unnamed/part_007, lines 1-738):              *)
(* generateCoachTip with first-time celebrations                             *)

\* context.celebratedBehaviors; given = FALSE models an absent field
CelebratedKeys == {"askedFirstQuestion", "sharedPersonally", "activeListening",
                   "gracefulClose", "followedSuggestion", "foundCommonGround"}
Celebrated(given, done) == [given |-> given, done |-> done]

NoReinforcement == [tip |-> "", behaviorKey |-> ""]
Reinforcement(tip, key) == [tip |-> tip, behaviorKey |-> key]

FirstQuestionCelebration ==
    "Nice! Asking questions is one of the best ways to connect - people love talking about themselves."
SharedCelebration == "That's the vibe - sharing about yourself builds real connection."
ListeningCelebration == "Great listening - referencing what someone said makes them feel heard."
CloseCelebration == "Smooth close - ending warmly leaves a good impression."
CommonGroundCelebration ==
    "Finding common ground - that's one of the fastest ways to build connection with someone new."
FollowedCelebration ==
    "You picked that up fast - that's exactly the kind of move that makes conversations flow."

\* /\b(i|i'm|i've|my|i'd)\s+\w+/i
firstPerson_test(text) == AnyThenWord(toLowerCase(text), << "i", "i'm", "i've", "my", "i'd" >>)

\* .split(/\s+/).filter(w => w.length > 4).slice(0, 10): the pieces kept, by their places
firstLongWords(str) ==
    LET pieces == {<< a, b >> \in (1..Len(str)) \X (1..Len(str)) :
                      /\ b - a + 1 > 4
                      /\ \A n \in a..b : CharAt(str, n) \notin SpaceChars
                      /\ (a = 1 \/ CharAt(str, a - 1) \in SpaceChars)
                      /\ (b = Len(str) \/ CharAt(str, b + 1) \in SpaceChars)}
    IN  {w \in pieces : Cardinality({v \in pieces : v[1] < w[1]}) < 10}

ReferenceStopWords == {"about", "think", "would", "could", "should", "really", "actually"}

\* /\b(you (said|mentioned|were saying)|that('s| is) (cool|interesting|awesome|neat))\b/i
callback_test(text) ==
    BoundedAny(toLowerCase(text),
               << "you said", "you mentioned", "you were saying",
                  "that's cool", "that's interesting", "that's awesome", "that's neat",
                  "that is cool", "that is interesting", "that is awesome", "that is neat" >>)

\* the pattern of a graceful close
gracefulClose_test(str) ==
    BoundedAny(str, << "nice to ", "nice talking", "nice chatting", "nice meeting",
                       "good talking", "good chatting", "good to meet", "take care", "see you",
                       "catch you", "have a good", "was nice", "was great", "was fun" >>)

\* jordanInterestPatterns: the first pattern that matches decides only that one matched
jordanInterest_test(str) ==
    AnyThenWord(str, << "i love", "i like", "i enjoy", "i watch", "i read", "i play", "i listen to",
                        "i'm into", "i'm a fan of", "my favorite",
                        "i've been watching", "i've been reading", "i've been playing",
                        "i've been listening to",
                        "big fan of", "really into", "obsessed with" >>)

\* /\b(oh (yeah|nice|cool)?.{0,20}i (love|like|watch|read|play))\b/i
ohThenI_test(str) ==
    \E i \in 1..Len(str), j \in 1..Len(str), v \in {"love", "like", "watch", "read", "play"} :
        /\ WordBoundary(str, i) /\ StartsAt(str, i, "oh ")
        /\ StartsAt(str, j, "i " \o v) /\ WordBoundary(str, j + 2 + Len(v))
        /\ \E w \in {"", "yeah", "nice", "cool"} :
              /\ StartsAt(str, i + 3, w)
              /\ j - (i + 3 + Len(w)) \in 0..20
              /\ \A n \in (i + 3 + Len(w))..(j - 1) : CharAt(str, n) \notin {"\n", "\r"}

\* the four patterns of userShowsCommonGround
commonGround_test(text) ==
    LET str == toLowerCase(text)
    IN  \/ BoundedAny(str, << "me too", "same ", "same here", "i also that", "i love that",
                              "i like that", "i'm into", "i'm also into" >>)
        \/ ohThenI_test(str)
        \/ BoundedAny(str, << "have you seen", "have you read", "have you tried", "have you heard",
                              "what's your favorite", "what is your favorite" >>)
        \/ BoundedAny(str, << "i saw", "i watched", "i read", "i finished", "i started",
                              "i just saw", "i just watched", "i just read", "i just finished",
                              "i just started" >>)

interestKeywords == << "movie", "book", "game", "show", "music", "band", "series", "podcast",
                       "anime", "manga", "sci-fi", "horror", "comedy", "fantasy" >>

\* interestKeywords.find(kw => jordanLower.includes(kw)), "" for undefined
firstInterestKeyword(jordanLower) ==
    LET hits == {n \in 1..Len(interestKeywords) : Includes(jordanLower, interestKeywords[n])}
    IN  IF hits = {} THEN "" ELSE interestKeywords[Min(hits)]

\* generatePositiveReinforcement(context)
generatePositiveReinforcement(context) ==
    LET userText == context.userText
        h == context.history
        done == context.celebratedBehaviors.done
        userMessages == Append(withRole(h, "user"), Turn("user", userText, NoTip))
        userLower == trim(toLowerCase(userText))
        hasQuestion == hasQuestionMark(userText)
        lastJordan == h[Len(h)]
        afterJordan == Len(h) >= 2 /\ lastJordan.role = "assistant"
        jordanLower == toLowerCase(lastJordan.content)
        previousUserAsked ==
            \E n \in 1..(Len(userMessages) - 1) : hasQuestionMark(userMessages[n].content)
        userReferences ==
            \E w \in firstLongWords(jordanLower) :
                LET word == SubSeq(jordanLower, w[1], w[2])
                IN  Includes(userLower, word) /\ word \notin ReferenceStopWords
        jordanMentionedTopic == firstInterestKeyword(jordanLower)
        userEchoesTopic ==
            jordanMentionedTopic # "" /\ Includes(toLowerCase(userText), jordanMentionedTopic)
        recentTips == SelectSeq(sliceLast(h, 3), LAMBDA t : t.coachTip # NoTip)
        lastTip == recentTips[Len(recentTips)].coachTip
        followed ==
            \/ Includes(lastTip, "question") /\ hasQuestion
            \/ /\ Includes(lastTip, "name")
               /\ AnyThenWord(toLowerCase(userText), << "i'm", "my name", "call me" >>)
            \/ Includes(lastTip, "acknowledge") /\ IncludesAny(userLower, ACKNOWLEDGMENT_WORDS)
    IN  IF ~context.celebratedBehaviors.given THEN NoReinforcement
        ELSE IF /\ "askedFirstQuestion" \notin done /\ hasQuestion /\ Len(userMessages) >= 2
                /\ ~previousUserAsked
        THEN Reinforcement(FirstQuestionCelebration, "askedFirstQuestion")
        ELSE IF /\ "sharedPersonally" \notin done /\ afterJordan
                /\ firstPerson_test(lastJordan.content) /\ firstPerson_test(userText)
                /\ wordCountOf(userText) >= 8
        THEN Reinforcement(SharedCelebration, "sharedPersonally")
        ELSE IF /\ "activeListening" \notin done /\ afterJordan
                /\ (userReferences \/ callback_test(userText))
        THEN Reinforcement(ListeningCelebration, "activeListening")
        ELSE IF /\ "gracefulClose" \notin done /\ context.jordanEndedConversation
                /\ gracefulClose_test(userLower)
        THEN Reinforcement(CloseCelebration, "gracefulClose")
        ELSE IF /\ "foundCommonGround" \notin done /\ afterJordan
                /\ jordanInterest_test(jordanLower)
                /\ (commonGround_test(userText) \/ userEchoesTopic)
        THEN Reinforcement(CommonGroundCelebration, "foundCommonGround")
        ELSE IF /\ "followedSuggestion" \notin done /\ Len(h) >= 2
                /\ Len(recentTips) > 0 /\ followed
        THEN Reinforcement(FollowedCelebration, "followedSuggestion")
        ELSE NoReinforcement


InterviewTipRefined ==
    "Asking questions is great - you'll also want to break it up by sharing about yourself or responding to what they said, so it doesn't feel like an interview."

\* tier 3 of the refined system: as tier3Tip, with its own interview-mode check
tier3TipRefined(userText, h, jordanEnded, isGreetingOnly, hasQuestion) ==
    LET userMessages == Append(withRole(h, "user"), Turn("user", userText, NoTip))
        lastThreeUserMsgs == sliceLast(userMessages, 3)
        listeningTip == IF Len(h) >= 2 /\ hasQuestion THEN checkActiveListening(userText, h) ELSE NoTip
        shareTip == IF Len(h) >= 2 THEN checkBuildOnShare(userText, h) ELSE NoTip
        deflectionTip == IF Len(h) >= 2 THEN checkDeflection(userText, h) ELSE NoTip
        exitTip == IF Len(h) >= 3 THEN checkExitCues(userText, h, jordanEnded) ELSE NoTip
        stuckTip ==
            IF stuck_test(userText)
            THEN (IF hasQuestionMark(lastIfJordan(h)) THEN StuckAskedTip ELSE StuckTip)
            ELSE NoTip
        lastThreeQuestions ==
            {n \in 1..Len(lastThreeUserMsgs) : hasQuestionMark(lastThreeUserMsgs[n].content)}
        hasSharedAboutSelf ==
            \E n \in 1..Len(lastThreeUserMsgs) :
                /\ AnyThenWord(toLowerCase(lastThreeUserMsgs[n].content),
                               << "i", "i'm", "i've", "my", "i'd", "i'll" >>)
                /\ wordCountOf(lastThreeUserMsgs[n].content) >= 6
        hasAcknowledged ==
            \E n \in 1..Len(lastThreeUserMsgs) :
                LET msgLower == toLowerCase(lastThreeUserMsgs[n].content)
                IN  \/ IncludesAny(msgLower, ACKNOWLEDGMENT_WORDS)
                    \/ BoundedAny(msgLower, << "that's", "that is", "sounds", "seems", "wow", "oh",
                                               "nice", "cool", "interesting", "awesome" >>)
        interviewTip ==
            IF /\ Len(userMessages) >= 3 /\ Cardinality(lastThreeQuestions) >= 3
               /\ ~hasSharedAboutSelf /\ ~hasAcknowledged
            THEN InterviewTipRefined ELSE NoTip
        recentDistress ==
            \E n \in 1..Len(lastThreeUserMsgs) : detectDistressLevel(lastThreeUserMsgs[n].content) > 0
        noneAsksBack ==
            \A n \in 1..Len(lastThreeUserMsgs) :
                LET msg == lastThreeUserMsgs[n].content
                    msgIsGreeting == greetingOnlyPattern_test(msg) /\ wordCountOf(msg) < 3
                IN  ~msgIsGreeting /\ ~hasQuestionMark(msg)
        reciprocityTip ==
            IF ~jordanEnded /\ Len(h) >= 4 /\ ~isGreetingOnly /\ ~recentDistress /\ noneAsksBack
            THEN ReciprocityTip ELSE NoTip
    IN  IF listeningTip # NoTip THEN listeningTip
        ELSE IF shareTip # NoTip THEN shareTip
        ELSE IF deflectionTip # NoTip THEN deflectionTip
        ELSE IF exitTip # NoTip THEN exitTip
        ELSE IF stuckTip # NoTip THEN stuckTip
        ELSE IF interviewTip # NoTip THEN interviewTip
        ELSE reciprocityTip

\* what generateCoachTip of the refined system returns: {} is NoOutput
NoChat == [content |-> "", type |-> ""]
NoOutput == [tip |-> NoTip, celebratedBehavior |-> "", chatMessage |-> NoChat]
TipOutput(tip) == [NoOutput EXCEPT !.tip = tip]
CelebrationOutput(r) ==
    [tip |-> NoTip, celebratedBehavior |-> r.behaviorKey,
     chatMessage |-> [content |-> r.tip, type |-> "celebration"]]

\* generateCoachTip(context) of the refined system
generateCoachTipRefined(context) ==
    LET userText == context.userText
        h == context.history
        triggerKind == context.triggerKind
        passing == triggerKind \in PassingKinds
        recentTipCount == tipCountOf(sliceLast(h, 3))
        currentDistress == detectDistressLevel(userText)
        positiveReinforcement == generatePositiveReinforcement(context)
        wordCount == wordCountOf(userText)
        hasQuestion == hasQuestionMark(userText)
        isGreetingOnly == greetingOnlyPattern_test(userText) /\ wordCount < 3
        second == tier2Tip(userText, h, isGreetingOnly, hasQuestion, wordCount)
        third == tier3TipRefined(userText, h, context.jordanEndedConversation, isGreetingOnly, hasQuestion)
    IN  IF context.cooldown THEN NoOutput
        ELSE IF tipCountOf(h) >= 4 /\ ~passing THEN NoOutput
        ELSE IF recentTipCount > 0 /\ ~passing THEN NoOutput
        ELSE IF (currentDistress > 0 \/ hasDescendingTrajectory(h, userText)) /\ ~passing THEN NoOutput
        ELSE IF positiveReinforcement # NoReinforcement THEN CelebrationOutput(positiveReinforcement)
        ELSE IF triggerKind = "PII" THEN TipOutput(PrivateInfoTip)
        ELSE IF triggerKind = "CONTROVERSIAL" THEN TipOutput(HeavyTopicTip)
        ELSE IF triggerKind = "CRISIS" THEN TipOutput(CrisisAdjacentTip)
        ELSE IF second # NoTip THEN TipOutput(second)
        ELSE IF third # NoTip THEN TipOutput(third)
        ELSE TipOutput(tier4Tip(userText, h, isGreetingOnly, hasQuestion, wordCount))

-----------------------------------------------------------------------------
(* generateCoachTip of the refined system as a function of its context *)

\* exchanges in a history handed to it
MaxRefinedExchanges == 1

\* what the user types
RefinedUserTexts == { "Can you call me at 555-123-4567?",
                      "call me at 555-123-4567",
                      "What do you think about politics?",
                      "I mostly read sci-fi novels these days",
                      "It was nice talking to you, take care" }

RefinedExchanges ==
    { << Turn("user", u, tip), Turn("assistant", a, NoTip) >> :
        u \in {"hey", "I mostly read sci-fi novels these days"},
        tip \in {NoTip, SelfIntroTip},
        a \in TipJordanTexts }

RECURSIVE RefinedHistories(_)
RefinedHistories(n) ==
    IF n = 0 THEN { << Turn("assistant", openingLine("bookstore"), NoTip) >> }
    ELSE RefinedHistories(n - 1) \cup
         {h \o x : h \in {g \in RefinedHistories(n - 1) : Len(g) = 2 * n - 1}, x \in RefinedExchanges}

\* nothing celebrated yet, everything celebrated, or no record handed in
CelebratedChoices == {Celebrated(TRUE, {}), Celebrated(TRUE, CelebratedKeys), Celebrated(FALSE, {})}

RefinedContexts(n) ==
    { [userText |-> u, history |-> h, triggerKind |-> prioritize(detectTriggers(u)).kind,
       cooldown |-> c, jordanEndedConversation |-> e, celebratedBehaviors |-> b] :
        u \in RefinedUserTexts, h \in RefinedHistories(n), c \in BOOLEAN, e \in BOOLEAN,
        b \in CelebratedChoices }

InitRefined ==
    /\ AppInit
    /\ fnPc = "ready"
    /\ fnArg \in RefinedContexts(MaxRefinedExchanges)
    /\ fnRes = Idle

CallGenerateCoachTipRefined ==
    /\ fnPc = "ready"
    /\ fnRes' = generateCoachTipRefined(fnArg)
    /\ fnPc' = "done"
    /\ UNCHANGED << fnArg, appVars >>

NextRefined == CallGenerateCoachTipRefined

SpecRefined == InitRefined /\ [][NextRefined]_vars

-----------------------------------------------------------------------------
(* C25: generateCoachTip produces at most one output per user turn, chosen   *)
(* by strict priority: whenever the trigger is a safety kind (PII or         *)
(* controversial) and no suppression applies, the output is the safety tip,  *)
(* ahead of every critical-error tip, flow tip, milestone tip and any other  *)
(* coaching output, first-time celebrations included.                        *)

\* the trigger kinds whose tips are the safety tips
SafetyTipKinds == {"PII", "CONTROVERSIAL"}

\* the safety tip of a trigger kind
SafetyTipOf(kind) == IF kind = "PII" THEN PrivateInfoTip ELSE HeavyTopicTip

\* no more than one of tip and chat message
AtMostOneOutput(out) == out.tip = NoTip \/ out.chatMessage = NoChat

C25_SafetyTipFirst ==
    fnPc = "done" =>
        /\ AtMostOneOutput(fnRes)
        /\ (fnArg.triggerKind \in SafetyTipKinds /\ ~fnArg.cooldown) =>
              fnRes = TipOutput(SafetyTipOf(fnArg.triggerKind))

\* the same priority in generateCoachTip of coachingEngine.ts, which has no celebrations
C25_SafetyTipFirstInEngine ==
    (fnPc = "done" /\ fnArg.triggerKind \in SafetyTipKinds /\ ~fnArg.cooldown) =>
        fnRes.tip = SafetyTipOf(fnArg.triggerKind)

-----------------------------------------------------------------------------
(* CrisisModal (unnamed/part_016): the intervention dialog. Its state is     *)
(* kept in fnArg, what it has reported through onSelection in fnRes, and     *)
(* fnPc tells whether the orchestrator still shows it.                       *)

\* presses of a reporting button in one showing of the dialog
MaxReports == 3

\* what the user types into the ZIP field
ZipTyped == {"", "  ", "90210", "10001", "1234567"}

ModalState(showZipInput, zip, resourcesShown) ==
    [showZipInput |-> showZipInput, zip |-> zip, resourcesShown |-> resourcesShown]

Selection(choice, zip) == [choice |-> choice, zip |-> zip]

\* the orchestrator's handler of onSelection: support_needed leaves the dialog open
\* for reading, false_positive and restart start a fresh session
ModalStaysOpen(choice) == choice = "support_needed"

\* onSelection(choice, zip)
onSelection(choice, zip) ==
    /\ fnRes' = [reports |-> Append(fnRes.reports, Selection(choice, zip))]
    /\ fnPc' = IF ModalStaysOpen(choice) THEN "modal" ELSE "closed"

\* the label of the primary button
PrimaryLabel ==
    IF fnArg.resourcesShown
    THEN (IF fnArg.showZipInput /\ trim(fnArg.zip) = "" THEN "Skip ZIP & Close" ELSE "Close & Start Fresh")
    ELSE "Get Real Support"

InitModal ==
    /\ AppInit
    /\ fnPc = "modal"
    /\ fnArg = ModalState(FALSE, "", FALSE)
    /\ fnRes = [reports |-> << >>]

\* handleGetSupport, the handler of the primary button
handleGetSupport ==
    /\ fnPc = "modal"
    /\ Len(fnRes.reports) < MaxReports
    /\ IF fnArg.showZipInput /\ trim(fnArg.zip) # ""
       THEN /\ onSelection("support_needed", trim(fnArg.zip))
            /\ fnArg' = [fnArg EXCEPT !.resourcesShown = TRUE]
       ELSE IF fnArg.resourcesShown
       THEN /\ onSelection("restart", "")
            /\ fnArg' = fnArg
       ELSE /\ fnArg' = [fnArg EXCEPT !.showZipInput = TRUE, !.resourcesShown = TRUE]
            /\ UNCHANGED << fnPc, fnRes >>
    /\ UNCHANGED appVars

\* onChange of the ZIP field, shown once showZipInput is set
ChangeZip(typed) ==
    /\ fnPc = "modal"
    /\ fnArg.showZipInput
    /\ fnArg' = [fnArg EXCEPT !.zip = SubSeq(typed, 1, IF Len(typed) < 5 THEN Len(typed) ELSE 5)]
    /\ UNCHANGED << fnPc, fnRes, appVars >>

\* "This Was a Mistake", shown until resources have been shown
PressFalsePositive ==
    /\ fnPc = "modal"
    /\ ~fnArg.resourcesShown
    /\ onSelection("false_positive", "")
    /\ UNCHANGED << fnArg, appVars >>

\* "I'm Good, Let's Start Over", shown until resources have been shown
PressStartOver ==
    /\ fnPc = "modal"
    /\ ~fnArg.resourcesShown
    /\ onSelection("restart", "")
    /\ UNCHANGED << fnArg, appVars >>

NextModal ==
    \/ handleGetSupport
    \/ \E typed \in ZipTyped : ChangeZip(typed)
    \/ PressFalsePositive
    \/ PressStartOver

SpecModal == InitModal /\ [][NextModal]_vars

-----------------------------------------------------------------------------
(* C26: in the crisis modal, every run in which the user chooses "Get Real   *)
(* Support" reports support_needed to the orchestrator and keeps the modal   *)
(* open for reading; once resources have been shown, the next press of the   *)
(* primary button reports restart and closes the modal, so the user can      *)
(* always leave the intervention.                                            *)

\* the step is a press of the primary button: it shows the resources, or it reports
\* while they are shown (the two other buttons are gone by then)
PrimaryPressed ==
    \/ ~fnArg.resourcesShown /\ fnArg'.resourcesShown
    \/ fnArg.resourcesShown /\ fnRes' # fnRes

\* the step reports choice to the orchestrator
Reports(choice) ==
    /\ Len(fnRes'.reports) = Len(fnRes.reports) + 1
    /\ fnRes'.reports[Len(fnRes'.reports)].choice = choice

C26_SupportThenLeave ==
    [][(fnPc = "modal" /\ PrimaryPressed) =>
          IF PrimaryLabel = "Get Real Support"
          THEN Reports("support_needed") /\ fnPc' = "modal"
          ELSE Reports("restart") /\ fnPc' = "closed"]_vars

\* the second half on its own: with resources shown, the primary button leaves
C26_PrimaryLeaves ==
    [][(fnPc = "modal" /\ fnArg.resourcesShown /\ PrimaryPressed) =>
          (Reports("restart") /\ fnPc' = "closed")]_vars

-----------------------------------------------------------------------------
(* C27: the two views of tier-2 accumulation agree: after any sequence of    *)
(* user messages, countTier2SignalsInHistory(history) equals the number of   *)
(* those messages for which analyzeDistress reported foundTier2 = true.      *)
(* Checked message by message: a sequence of one message is counted 1        *)
(* exactly when analyzeDistress reports foundTier2 for it.                   *)

C27_Tier2ViewsAgree ==
    fnPc = "done" =>
        countTier2SignalsInHistory(<< Turn("user", fnArg.text, NoTip) >>)
            = (IF fnRes.foundTier2 THEN 1 ELSE 0)

-----------------------------------------------------------------------------
(* grant-admin (unnamed/part_000): the edge function that inserts admin      *)
(* roles with the service role key. Each await of serve is a step; requests  *)
(* of different users interleave. fnArg holds table user_roles and the       *)
(* grants made, fnRes the requests in flight.                                *)

\* signed-up users; a user's email is the user's name
GrantUsers == {"ann", "bob"}

\* the email field of a request body ("" when the body has none)
GrantEmails == GrantUsers \cup {"", "eve"}

\* requests one user sends
MaxGrantRequests == 2

NoRequest(left) == [pc |-> "idle", email |-> "", adminExists |-> FALSE, target |-> "", left |-> left]

InitGrant ==
    /\ AppInit
    /\ fnPc = "roles"
    /\ fnArg = [admins |-> {}, grants |-> {}]
    /\ fnRes = [u \in GrantUsers |-> NoRequest(MaxGrantRequests)]

\* the request ends (with a response of either kind)
Respond(u) == [fnRes EXCEPT ![u] = NoRequest(fnRes[u].left)]

\* lines 20-32: the request of an authenticated user arrives
GrantRequested(u, email) ==
    /\ fnRes[u].pc = "idle"
    /\ fnRes[u].left > 0
    /\ fnRes' = [fnRes EXCEPT ![u] = [pc |-> "select", email |-> email, adminExists |-> FALSE,
                                      target |-> "", left |-> fnRes[u].left - 1]]
    /\ UNCHANGED << fnPc, fnArg, appVars >>

\* lines 66-88 for the bootstrap path: the requester may name nobody else
bootstrapTarget(u, email) == IF email # "" /\ email # u THEN "" ELSE u

\* lines 66-81 for the admin path: the email is required and must be a user's
adminTarget(email) == IF email \in GrantUsers THEN email ELSE ""

\* lines 34-41: the select of existing admins answered; without admins the
\* bootstrap target is decided (lines 57-88)
ExistingAdminsRead(u) ==
    LET adminExists == fnArg.admins # {}
        target == bootstrapTarget(u, fnRes[u].email)
    IN  /\ fnRes[u].pc = "select"
        /\ fnRes' = IF adminExists
                    THEN [fnRes EXCEPT ![u].pc = "check", ![u].adminExists = TRUE]
                    ELSE IF target = "" THEN Respond(u)
                    ELSE [fnRes EXCEPT ![u].pc = "insert", ![u].target = target]
        /\ UNCHANGED << fnPc, fnArg, appVars >>

\* lines 44-55: the select of the requester's admin role answered; an admin's
\* target is decided (lines 57-81)
AdminChecked(u) ==
    LET target == adminTarget(fnRes[u].email)
    IN  /\ fnRes[u].pc = "check"
        /\ fnRes' = IF u \notin fnArg.admins \/ target = "" THEN Respond(u)
                    ELSE [fnRes EXCEPT ![u].pc = "insert", ![u].target = target]
        /\ UNCHANGED << fnPc, fnArg, appVars >>

\* lines 90-105: the insert into user_roles answered; a second admin row of the
\* same user is refused by the unique constraint (code 23505)
RoleInserted(u) ==
    LET target == fnRes[u].target
    IN  /\ fnRes[u].pc = "insert"
        /\ fnArg' = IF target \in fnArg.admins THEN fnArg
                    ELSE [admins |-> fnArg.admins \cup {target},
                          grants |-> fnArg.grants \cup
                                     {[target |-> target, by |-> u,
                                       path |-> IF fnRes[u].adminExists THEN "admin" ELSE "bootstrap"]}]
        /\ fnRes' = Respond(u)
        /\ UNCHANGED << fnPc, appVars >>

NextGrant ==
    \/ \E u \in GrantUsers, email \in GrantEmails : GrantRequested(u, email)
    \/ \E u \in GrantUsers : ExistingAdminsRead(u)
    \/ \E u \in GrantUsers : AdminChecked(u)
    \/ \E u \in GrantUsers : RoleInserted(u)

SpecGrant == InitGrant /\ [][NextGrant]_vars

-----------------------------------------------------------------------------
(* C28: grant-admin gives the admin role on behalf of a non-admin requester  *)
(* only in the bootstrap case where no admin exists, and then only to the    *)
(* requester; under any interleaving of concurrent requests at most one user *)
(* obtains admin through the bootstrap path, and once an admin exists a      *)
(* non-admin request grants nothing.                                         *)

\* the step on which a request of a user who is no admin adds an admin
NonAdminGrants(u) == u \notin fnArg.admins /\ fnArg'.admins # fnArg.admins /\ fnRes[u].pc = "insert"
                     /\ fnRes'[u].pc = "idle"

C28_BootstrapOnce ==
    /\ [](Cardinality({g \in fnArg.grants : g.path = "bootstrap"}) <= 1)
    /\ [][\A u \in GrantUsers :
            NonAdminGrants(u) => (fnArg.admins = {} /\ fnArg'.admins = {u})]_vars


-----------------------------------------------------------------------------
(* The Roles tab of the Admin page (migration 20251021041809, embedded page  *)
(* source): every admin has the page open with a list adminUsers of its own, *)
(* loaded at mount and after a revocation. Each await is a step; the pages   *)
(* of different admins interleave. fnArg holds table user_roles, fnRes the   *)
(* pages.                                                                    *)

RevokeUsers == {"ann", "bob", "cat"}

\* a page that has just mounted: adminUsers is [] and loadAdminUsers is pending
MountedPage == [pc |-> "load", adminUsers |-> {}, target |-> ""]

InitRevoke ==
    /\ AppInit
    /\ fnPc = "roles"
    /\ fnArg = [admins |-> RevokeUsers]
    /\ fnRes = [u \in RevokeUsers |-> MountedPage]

\* lines 158-168: the rows of user_roles a user may select: all of them for
\* an admin, the user's own otherwise
visibleAdmins(u) == IF u \in fnArg.admins THEN fnArg.admins ELSE fnArg.admins \cap {u}

\* lines 247-259: an admin opens (or reloads) the page
AdminPageOpened(u) ==
    /\ fnRes[u].pc = "idle"
    /\ u \in fnArg.admins
    /\ fnRes' = [fnRes EXCEPT ![u] = MountedPage]
    /\ UNCHANGED << fnPc, fnArg, appVars >>

\* lines 403-418: the select of loadAdminUsers answered
loadAdminUsers(u) ==
    /\ fnRes[u].pc = "load"
    /\ fnRes' = [fnRes EXCEPT ![u].pc = "idle", ![u].adminUsers = visibleAdmins(u)]
    /\ UNCHANGED << fnPc, fnArg, appVars >>

\* lines 468-482 and 853-870: the revoke button of a listed admin pressed;
\* the guard reads the page's own list
revokeAdminRole(u, userId) ==
    /\ fnRes[u].pc = "idle"
    /\ userId \in fnRes[u].adminUsers
    /\ Cardinality(fnRes[u].adminUsers) # 1
    /\ fnRes' = [fnRes EXCEPT ![u].pc = "delete", ![u].target = userId]
    /\ UNCHANGED << fnPc, fnArg, appVars >>

\* lines 176-180 and 478-496: the delete answered; the policy lets an admin's
\* delete through and filters the rows of anyone else's without an error,
\* then the list is loaded again
RoleDeleted(u) ==
    /\ fnRes[u].pc = "delete"
    /\ fnArg' = IF u \in fnArg.admins
                THEN [fnArg EXCEPT !.admins = @ \ {fnRes[u].target}]
                ELSE fnArg
    /\ fnRes' = [fnRes EXCEPT ![u].pc = "load", ![u].target = ""]
    /\ UNCHANGED << fnPc, appVars >>

NextRevoke ==
    \/ \E u \in RevokeUsers : AdminPageOpened(u)
    \/ \E u \in RevokeUsers : loadAdminUsers(u)
    \/ \E u \in RevokeUsers, userId \in RevokeUsers : revokeAdminRole(u, userId)
    \/ \E u \in RevokeUsers : RoleDeleted(u)

SpecRevoke == InitRevoke /\ [][NextRevoke]_vars

-----------------------------------------------------------------------------
(* C29: once an admin exists, the set of admins never becomes empty:         *)
(* revokeAdminRole refuses to remove the last admin, also when two admins    *)
(* issue revocations concurrently from their own views of the admin list.    *)

C29_AdminsNeverEmpty == fnPc = "roles" => fnArg.admins # {}


-----------------------------------------------------------------------------
(* Index.tsx, updateSession: the aggregate counts written to                 *)
(* session_metadata, computed from the history of the render                 *)

TipsIncluding(h, k) == {n \in 1..Len(h) : Includes(h[n].coachTip, k)}

\* line 1271: history.filter(h => h.coachTip?.includes("988")).length
crisisCount(h) == Cardinality(TipsIncluding(h, "988"))

\* line 1272: history.filter(h => h.coachTip?.includes("contact info")).length
piiCount(h) == Cardinality(TipsIncluding(h, "contact info"))

\* line 1273: history.filter(h => h.coachTip?.includes("polarizing")).length
controversialCount(h) == Cardinality(TipsIncluding(h, "polarizing"))

\* line 1274: history.filter(h => h.coachTip).length
coachingCount(h) == Cardinality({n \in 1..Len(h) : h[n].coachTip # NoTip})

\* send, steps 1 and 2, for a message of the history: its prioritised trigger
mainOfContent == [content \in {trim(text) : text \in UserTexts} |->
                     prioritize(detectTriggers(content))]

\* the user messages of a history whose prioritised trigger was of the kind
MessagesOfKind(h, kind) == {n \in UserTurns(h) : mainOfContent[h[n].content].kind = kind}

-----------------------------------------------------------------------------
(* C30: the persisted aggregate counts reflect the session: after any        *)
(* sequence of turns, the crisis_count, pii_count and controversial_count    *)
(* written by updateSession equal the number of user messages whose          *)
(* prioritised trigger was CRISIS, PII and CONTROVERSIAL respectively, and   *)
(* coaching_count equals the number of user turns that carry a tip.          *)

C30_CountsReflectSession ==
    /\ crisisCount(history) = Cardinality(MessagesOfKind(history, "CRISIS"))
    /\ piiCount(history) = Cardinality(MessagesOfKind(history, "PII"))
    /\ controversialCount(history) = Cardinality(MessagesOfKind(history, "CONTROVERSIAL"))
    /\ coachingCount(history) = Cardinality({n \in UserTurns(history) : history[n].coachTip # NoTip})

\* the parts of it on their own
C30_CrisisCount == crisisCount(history) = Cardinality(MessagesOfKind(history, "CRISIS"))
C30_CoachingCount ==
    coachingCount(history) = Cardinality({n \in UserTurns(history) : history[n].coachTip # NoTip})
C30_PiiCount == piiCount(history) = Cardinality(MessagesOfKind(history, "PII"))

=============================================================================
